---- MODULE Spec2Model ----
(***************************************************************************)
(* Key blinding, shared-secret derivation, trial decryption and the note   *)
(* codec of railgun-reloaded/wallet-node.                                  *)
(*                                                                         *)
(* Byte arrays (Uint8Array) are sequences of 0..255, JavaScript strings    *)
(* are sequences of one-character strings, bigints are integers.  A call   *)
(* that may throw returns Ok(v) or Throw(e).  The note codec handles       *)
(* values with their JavaScript type, see below.                           *)
(*                                                                         *)
(* The external primitives are modelled by their contracts: the curve is a *)
(* cyclic group of prime order CURVE_L whose points are written by their   *)
(* discrete logarithm to the base point, SHA-256 and Poseidon are          *)
(* collision free, AES-GCM opens a ciphertext only under the key that      *)
(* sealed it.                                                              *)
(***************************************************************************)
EXTENDS Integers, Sequences, FiniteSets, TLC

VARIABLES bk, ub, dc, note, wire, back, hp,
          libs, heap, wallets, ret, written, pth, dn, pb

\* the state of the blinding, decryption and note codec runs
noteVars == <<bk, ub, dc, note, wire, back, hp>>

\* the state of the wallet, derivation path and key probe runs
keyVars == <<libs, heap, wallets, ret, written, pth, dn, pb>>

vars == <<noteVars, keyVars>>

(***************************************************************************)
(* Results of calls that may throw                                         *)
(***************************************************************************)
Ok(v) == [ok |-> TRUE, v |-> v]

Throw(e) == [ok |-> FALSE, err |-> e]

None == [none |-> TRUE]

\* const v = value; body(v): the value is computed once and named
Const(value, Body(_)) == Body(value)

(***************************************************************************)
(* Bounds of the model                                                     *)
(***************************************************************************)
\* randoms are byte arrays of 1..MaxRandomLen bytes
MaxRandomLen == 2

(***************************************************************************)
(* hash.ts                                                                 *)
(***************************************************************************)
Byte == 0..255

Rep(x, n) == [i \in 1..n |-> x]

Reverse(s) == [i \in 1..Len(s) |-> s[Len(s) + 1 - i]]

RECURSIVE Pow(_, _)
Pow(b, e) == IF e = 0 THEN 1 ELSE b * Pow(b, e - 1)

RECURSIVE PowMod(_, _, _)
PowMod(b, e, m) == IF e = 0 THEN 1 % m ELSE (b * PowMod(b, e - 1, m)) % m

\* result = (result << 8) | byte, over the bytes in order; the two halves of
\* the array are folded apart and joined, which yields the same number
RECURSIVE uint8ArrayToBigInt(_)
uint8ArrayToBigInt(bytes) ==
  IF bytes = <<>> THEN 0
  ELSE IF Len(bytes) = 1 THEN bytes[1]
  ELSE LET h == Len(bytes) \div 2
           hi == uint8ArrayToBigInt(SubSeq(bytes, 1, h))
           lo == uint8ArrayToBigInt(SubSeq(bytes, h + 1, Len(bytes)))
       IN IF hi = 0 THEN lo ELSE hi * Pow(256, Len(bytes) - h) + lo

\* uint8ArrayToBigInt(bytes) % m, for arrays whose value exceeds the integers
\* of TLC: the same number, reduced at every step
RECURSIVE uint8ArrayToBigIntMod(_, _)
uint8ArrayToBigIntMod(bytes, m) ==
  IF bytes = <<>> THEN 0
  ELSE IF Len(bytes) = 1 THEN bytes[1] % m
  ELSE LET h == Len(bytes) \div 2
           hi == uint8ArrayToBigIntMod(SubSeq(bytes, 1, h), m)
           lo == uint8ArrayToBigIntMod(SubSeq(bytes, h + 1, Len(bytes)), m)
       IN (hi * PowMod(256 % m, Len(bytes) - h, m) + lo) % m

\* value >> (8 * k), for the values of the model (below 2^31)
ShiftRightBytes(value, k) == IF k >= 4 THEN 0 ELSE value \div Pow(256, k)

\* bytes[i] = value & 0xff; value >>= 8, from the last byte to the first
bigintToUint8Array(value, length) ==
  [i \in 1..length |-> ShiftRightBytes(value, length - i) % 256]

RECURSIVE BitXor(_, _)
BitXor(a, b) ==
  IF a = 0 THEN b
  ELSE IF b = 0 THEN a
  ELSE (((a % 2) + (b % 2)) % 2) + 2 * BitXor(a \div 2, b \div 2)

\* outputBuffer[i] = a[i] ^ b[i] for offset <= i < a.length; a read past the
\* end of b is undefined, which ^ takes as 0; a write past the end of the
\* output buffer is dropped
xorBytesInPlace(a, b, outputBuffer, offset) ==
  [i \in 1..Len(outputBuffer) |->
     IF i - 1 >= offset /\ i <= Len(a)
     THEN BitXor(a[i], IF i <= Len(b) THEN b[i] ELSE 0)
     ELSE outputBuffer[i]]

(***************************************************************************)
(* External hash primitives                                                *)
(***************************************************************************)
RECURSIVE WeightedSum(_, _, _)
WeightedSum(bytes, lo, hi) ==
  IF lo > hi THEN 0
  ELSE IF lo = hi THEN (lo * (bytes[lo] + 1)) % 65521
  ELSE LET mid == (lo + hi) \div 2
       IN (WeightedSum(bytes, lo, mid) + WeightedSum(bytes, mid + 1, hi)) % 65521

\* a 64-byte digest that is a function of the input
sha512(bytes) ==
  LET w == WeightedSum(bytes, 1, Len(bytes))
  IN [i \in 1..64 |-> ((w + i) * (2 * i + 31) + Len(bytes)) % 256]

\* collision free: the digest stands for its preimage
sha256(bytes) == [sha256 |-> bytes]

(***************************************************************************)
(* keys.ts: the curve                                                      *)
(***************************************************************************)
\* the order of the base point (2^252 + 27742...493 in the source), scaled
\* to a prime TLC can enumerate
CURVE_L == 13

CURVE_L_BYTES == bigintToUint8Array(CURVE_L, 32)

\* ed25519.CURVE.n
CurveN == CURVE_L

\* Point.fromHex: 32 bytes that decode to a point, else it throws
PointFromHex(bytes) ==
  IF Len(bytes) = 32
     /\ \A i \in 1..31 : bytes[i] = 0
     /\ bytes[32] < CurveN
  THEN Ok(bytes[32])
  ELSE Throw("bad point")

PointToRawBytes(p) == bigintToUint8Array(p, 32)

\* Point.multiply: the scalar must satisfy 0 < n < CURVE.n, else it throws
PointMultiply(p, n) ==
  IF 0 < n /\ n < CurveN THEN Ok((p * n) % CurveN) ELSE Throw("invalid scalar")

\* ed25519.etc.invert: throws when there is no inverse
Invert(num, md) ==
  IF num # 0 /\ md > 0 /\ \E x \in 1..(md - 1) : (x * num) % md = 1
  THEN Ok(CHOOSE x \in 1..(md - 1) : (x * num) % md = 1)
  ELSE Throw("no inverse")

\* adjustBytes25519 without the OR that sets the second-highest bit
adjustBytes25519NoSet(bytes, endian) ==
  IF Len(bytes) # 32 THEN Throw("Invalid input: bytes must be a Uint8Array of length 32")
  ELSE IF endian = "be"
       THEN Ok([i \in 1..32 |->
              IF i = 32 THEN bytes[32] - (bytes[32] % 8)
              ELSE IF i = 1 THEN bytes[1] % 128
              ELSE bytes[i]])
       ELSE Ok([i \in 1..32 |->
              IF i = 1 THEN bytes[1] - (bytes[1] % 8)
              ELSE IF i = 32 THEN bytes[32] % 128
              ELSE bytes[i]])

adjustBytes25519(bytes, endian) ==
  IF Len(bytes) # 32 THEN Throw("Invalid input: bytes must be a Uint8Array of length 32")
  ELSE LET clearLow(b) == b - (b % 8)
           clearTop(b) == b % 128
           setSecond(b) == IF (b \div 64) % 2 = 1 THEN b ELSE b + 64
       IN IF endian = "be"
          THEN Ok([i \in 1..32 |->
                 IF i = 32 THEN clearLow(bytes[32])
                 ELSE IF i = 1 THEN setSecond(clearTop(bytes[1]))
                 ELSE bytes[i]])
          ELSE Ok([i \in 1..32 |->
                 IF i = 1 THEN clearLow(bytes[1])
                 ELSE IF i = 32 THEN setSecond(clearTop(bytes[32]))
                 ELSE bytes[i]])

\* getPrivateScalarFromPrivateKey that returns the reduced scalar as it is
getPrivateScalarFromPrivateKeyNoFallback(privateKey) ==
  IF Len(privateKey) # 32 THEN Throw("Expected 32 bytes")
  ELSE LET hash == sha512(privateKey)
           head == adjustBytes25519(SubSeq(hash, 1, 32), "le")
           scalarBigInt == uint8ArrayToBigIntMod(Reverse(head.v), CURVE_L)
       IN IF ~head.ok THEN head ELSE Ok(bigintToUint8Array(scalarBigInt, 32))

getPrivateScalarFromPrivateKey(privateKey) ==
  IF Len(privateKey) # 32 THEN Throw("Expected 32 bytes")
  ELSE LET hash == sha512(privateKey)
           head == adjustBytes25519(SubSeq(hash, 1, 32), "le")
           scalarBigInt == uint8ArrayToBigIntMod(Reverse(head.v), CURVE_L)
           scalar == bigintToUint8Array(scalarBigInt, 32)
       IN IF ~head.ok THEN head
          ELSE Ok(IF scalarBigInt > 0 THEN scalar ELSE CURVE_L_BYTES)

scalarMultiplyJavascript(point, scalar) ==
  LET pk == PointFromHex(point)
  IN IF ~pk.ok THEN pk
     ELSE LET m == PointMultiply(pk.v, uint8ArrayToBigInt(scalar))
          IN IF ~m.ok THEN m ELSE Ok(PointToRawBytes(m.v))

scalarMultiplyWasmFallbackToJavascript(blindedPublicKeyPairB, scalar) ==
  scalarMultiplyJavascript(blindedPublicKeyPairB, scalar)

\* getSharedSymmetricKey that hashes the own scalar and leaves the key of the
\* other side out
getSharedSymmetricKeyWithoutPeer(privateKeyPairA, blindedPublicKeyPairB) ==
  LET scalar == getPrivateScalarFromPrivateKey(privateKeyPairA)
  IN IF ~scalar.ok THEN None ELSE sha256(scalar.v)

\* getSharedSymmetricKey without the try and catch
getSharedSymmetricKeyNoCatch(privateKeyPairA, blindedPublicKeyPairB) ==
  LET scalar == getPrivateScalarFromPrivateKey(privateKeyPairA)
  IN IF ~scalar.ok THEN scalar
     ELSE LET keyPreimage ==
                scalarMultiplyWasmFallbackToJavascript(blindedPublicKeyPairB, scalar.v)
          IN IF ~keyPreimage.ok THEN keyPreimage ELSE sha256(keyPreimage.v)

\* a 32-byte key, or None ("undefined") when any step throws
getSharedSymmetricKey(privateKeyPairA, blindedPublicKeyPairB) ==
  LET scalar == getPrivateScalarFromPrivateKey(privateKeyPairA)
  IN IF ~scalar.ok THEN None
     ELSE LET keyPreimage ==
                scalarMultiplyWasmFallbackToJavascript(blindedPublicKeyPairB, scalar.v)
          IN IF ~keyPreimage.ok THEN None ELSE sha256(keyPreimage.v)

\* getPublicKey of the curve library: the base point times the private scalar
getPublicViewingKey(privateViewingKey) ==
  LET scalar == getPrivateScalarFromPrivateKey(privateViewingKey)
  IN PointToRawBytes((uint8ArrayToBigInt(scalar.v)) % CurveN)

seedToScalar(seed) ==
  LET seedHash == sha512(seed)
  IN bigintToUint8Array(uint8ArrayToBigIntMod(seedHash, CurveN) - 1 + 1, 32)

getBlindingScalar(sharedRandom, senderRandom) ==
  LET finalRandom ==
        xorBytesInPlace(sharedRandom, senderRandom, Rep(0, Len(sharedRandom)), 0)
  IN uint8ArrayToBigInt(seedToScalar(finalRandom))

getNoteBlindingKeys(senderViewingPublicKey, receiverViewingPublicKey, sharedRandom, senderRandom) ==
  LET blindingScalar == getBlindingScalar(sharedRandom, senderRandom)
      senderPublicKeyPoint == PointFromHex(senderViewingPublicKey)
      receiverPublicKeyPoint == PointFromHex(receiverViewingPublicKey)
  IN IF ~senderPublicKeyPoint.ok THEN senderPublicKeyPoint
     ELSE IF ~receiverPublicKeyPoint.ok THEN receiverPublicKeyPoint
     ELSE LET s == PointMultiply(senderPublicKeyPoint.v, blindingScalar)
              r == PointMultiply(receiverPublicKeyPoint.v, blindingScalar)
          IN IF ~s.ok THEN s
             ELSE IF ~r.ok THEN r
             ELSE Ok([blindedSenderViewingKey |-> PointToRawBytes(s.v),
                      blindedReceiverViewingKey |-> PointToRawBytes(r.v)])

\* the unblinded key, or None ("undefined") when any step throws
unblindNoteKeyNoInvert(blindedNoteKey, sharedRandom, senderRandom) ==
  LET blindingScalar == getBlindingScalar(sharedRandom, senderRandom)
      point == PointFromHex(blindedNoteKey)
  IN IF ~point.ok THEN None
     ELSE LET unblinded == PointMultiply(point.v, blindingScalar)
          IN IF ~unblinded.ok THEN None ELSE Ok(PointToRawBytes(unblinded.v))

unblindNoteKey(blindedNoteKey, sharedRandom, senderRandom) ==
  LET blindingScalar == getBlindingScalar(sharedRandom, senderRandom)
      point == PointFromHex(blindedNoteKey)
      inverse == Invert(blindingScalar, CurveN)
  IN IF ~point.ok \/ ~inverse.ok THEN None
     ELSE LET unblinded == PointMultiply(point.v, inverse.v)
          IN IF ~unblinded.ok THEN None ELSE Ok(PointToRawBytes(unblinded.v))

(***************************************************************************)
(* hash.ts: the hex codec.  A string is the sequence of its characters.    *)
(***************************************************************************)
HexChars == <<"0", "1", "2", "3", "4", "5", "6", "7",
              "8", "9", "a", "b", "c", "d", "e", "f">>

\* '0x' + two lowercase hex characters per byte; the prefix is written
\* unless the second argument is false
uint8ArrayToHex(bytes, prefix) ==
  (IF prefix THEN <<"0", "x">> ELSE <<>>)
  \o [i \in 1..(2 * Len(bytes)) |->
        IF i % 2 = 1 THEN HexChars[(bytes[(i + 1) \div 2] \div 16) + 1]
        ELSE HexChars[(bytes[i \div 2] % 16) + 1]]

startsWith0x(str) == Len(str) >= 2 /\ str[1] = "0" /\ str[2] = "x"

strip0x(str) == IF startsWith0x(str) THEN SubSeq(str, 3, Len(str)) ELSE str

\* parseInt(c, 16) of one character, either case
HexVal(c) ==
  IF \E i \in 1..16 : HexChars[i] = c
  THEN (CHOOSE i \in 1..16 : HexChars[i] = c) - 1
  ELSE CASE c = "A" -> 10 [] c = "B" -> 11 [] c = "C" -> 12
         [] c = "D" -> 13 [] c = "E" -> 14 [] c = "F" -> 15

\* the bytes of a hex string with or without the 0x prefix
hexToUint8Array(hex) ==
  LET clean == strip0x(hex)
  IN IF Len(clean) % 2 # 0 THEN Throw("Hex string must have an even length")
     ELSE Ok([i \in 1..(Len(clean) \div 2) |->
                16 * HexVal(clean[2 * i - 1]) + HexVal(clean[2 * i])])

(***************************************************************************)
(* AES-GCM of the cryptography library: a ciphertext opens only under the  *)
(* key that sealed it, with the iv and the data it was sealed with.        *)
(***************************************************************************)
KeyId(key) == uint8ArrayToBigIntMod(key.sha256, 251)

BlocksSum(blocks) ==
  LET all == [i \in 1..Len(blocks) |-> WeightedSum(blocks[i], 1, Len(blocks[i])) + i]
  IN WeightedSum(all, 1, Len(all)) % 256

GcmTag(key, iv, data) ==
  <<KeyId(key), BlocksSum(data), iv[1]>> \o Rep(0, 13)

GcmStream(key, iv) == (KeyId(key) + iv[1] + 1) % 256

encryptGCM(blocks, key, iv) ==
  LET stream == GcmStream(key, iv)
      data == [b \in 1..Len(blocks) |->
                 [i \in 1..Len(blocks[b]) |-> (blocks[b][i] + stream) % 256]]
  IN [iv |-> iv, tag |-> GcmTag(key, iv, data), data |-> data]

decryptGCM(ciphertext, key) ==
  LET stream == GcmStream(key, ciphertext.iv)
  IN IF Len(ciphertext.iv) # 16 \/ Len(ciphertext.tag) # 16
     THEN Throw("Invalid iv or tag length")
     ELSE IF ciphertext.tag # GcmTag(key, ciphertext.iv, ciphertext.data)
     THEN Throw("Unsupported state or unable to authenticate data")
     ELSE Ok([b \in 1..Len(ciphertext.data) |->
                [i \in 1..Len(ciphertext.data[b]) |->
                   (ciphertext.data[b][i] + 256 - stream) % 256]])

(***************************************************************************)
(* decrypt-commitment.ts                                                   *)
(***************************************************************************)
Null == [null |-> TRUE]

\* the widths of the fields of the decrypted block, in order
RandomLen == 16

NpkLen == 32

ValueLen == 32

TokenAddressLen == 20

TokenTypeLen == 1

TokenSubIDLen == 32

\* the fields of the first decrypted block
\* parseCombinedData that reads the npk first and the random behind it
parseCombinedDataNpkFirst(combinedData) ==
  LET o1 == NpkLen
      o2 == o1 + RandomLen
      o3 == o2 + ValueLen
      o4 == o3 + TokenAddressLen
      o5 == o4 + TokenTypeLen
  IN [random |-> uint8ArrayToHex(SubSeq(combinedData, o1 + 1, o2), TRUE),
      npk |-> uint8ArrayToHex(SubSeq(combinedData, 1, o1), TRUE),
      value |-> uint8ArrayToBigInt(SubSeq(combinedData, o2 + 1, o3)),
      tokenData |->
        [tokenType |-> combinedData[o4 + 1],
         tokenAddress |-> uint8ArrayToHex(SubSeq(combinedData, o3 + 1, o4), TRUE),
         tokenSubID |->
           uint8ArrayToHex(SubSeq(combinedData, o5 + 1, o5 + TokenSubIDLen), TRUE)]]

parseCombinedData(combinedData) ==
  LET o1 == RandomLen
      o2 == o1 + NpkLen
      o3 == o2 + ValueLen
      o4 == o3 + TokenAddressLen
      o5 == o4 + TokenTypeLen
  IN [random |-> uint8ArrayToHex(SubSeq(combinedData, 1, o1), TRUE),
      npk |-> uint8ArrayToHex(SubSeq(combinedData, o1 + 1, o2), TRUE),
      value |-> uint8ArrayToBigInt(SubSeq(combinedData, o2 + 1, o3)),
      tokenData |->
        [tokenType |-> combinedData[o4 + 1],
         tokenAddress |-> uint8ArrayToHex(SubSeq(combinedData, o3 + 1, o4), TRUE),
         tokenSubID |->
           uint8ArrayToHex(SubSeq(combinedData, o5 + 1, o5 + TokenSubIDLen), TRUE)]]

\* the try block of decryptCommitment
decryptCommitmentTry(ciphertext, blindedViewingKey, viewingPrivateKey) ==
  Const(getSharedSymmetricKey(viewingPrivateKey, blindedViewingKey), LAMBDA sharedKey :
    IF sharedKey = None THEN Ok(Null)
    ELSE Const(decryptGCM(ciphertext, sharedKey), LAMBDA decrypted :
      IF ~decrypted.ok THEN decrypted
      ELSE IF Len(decrypted.v) = 0 THEN Ok(Null)
      ELSE Const(decrypted.v[1], LAMBDA combinedData :
        IF Len(combinedData) < RandomLen + NpkLen + ValueLen
                               + TokenAddressLen + TokenTypeLen + TokenSubIDLen
        THEN Ok(Null)
        ELSE Ok(parseCombinedData(combinedData)))))

\* decryptCommitment without its catch clause
decryptCommitmentNoCatch(ciphertext, blindedViewingKey, viewingPrivateKey) ==
  decryptCommitmentTry(ciphertext, blindedViewingKey, viewingPrivateKey)

\* catch (error) { return null }
decryptCommitment(ciphertext, blindedViewingKey, viewingPrivateKey) ==
  LET r == decryptCommitmentTry(ciphertext, blindedViewingKey, viewingPrivateKey)
  IN IF r.ok THEN r ELSE Ok(Null)

(***************************************************************************)
(* Values of the note codec.  deserialize reads its input untyped, so the  *)
(* values it handles carry their JavaScript type: a string is Str(chars),  *)
(* a number Num(n), a boolean Bool(b), a bigint BigIntOf(n), a Uint8Array  *)
(* Bytes(seq), an array Arr(seq), undefined is None and null is Null.  An  *)
(* object is a record of such values.  The bigint read from a Poseidon     *)
(* digest exceeds the integers of TLC and is kept as FieldOf of            *)
(* the digest; its decimal string is DecimalOfField of it.                 *)
(***************************************************************************)
Str(chars) == [str |-> chars]

Num(n) == [num |-> n]

Bool(b) == [bool |-> b]

BigIntOf(n) == [bigint |-> n]

Bytes(seq) == [bytes |-> seq]

Arr(seq) == [arr |-> seq]

FieldOf(digest) == [field |-> digest]

DecimalOfField(digest) == [decimalOfField |-> digest]

TypeTags == {"str", "num", "bool", "bigint", "bytes", "arr", "field",
             "decimalOfField", "none", "null", "nil"}

isString(v) == "str" \in DOMAIN v

isObject(v) == DOMAIN v \cap TypeTags = {}

\* if (v): undefined, null, '', 0 and false are falsy
truthy(v) ==
  /\ v # None /\ v # Null
  /\ isString(v) => v.str # <<>>
  /\ "num" \in DOMAIN v => v.num # 0
  /\ "bool" \in DOMAIN v => v.bool

\* object.key of an object that may lack the key
Get(object, key) == IF key \in DOMAIN object THEN object[key] ELSE None

Digits == <<"0", "1", "2", "3", "4", "5", "6", "7", "8", "9">>

\* the decimal digits of n >= 0
RECURSIVE Decimal(_)
Decimal(n) ==
  IF n < 10 THEN <<Digits[n + 1]>>
  ELSE Append(Decimal(n \div 10), Digits[(n % 10) + 1])

isDecimal(chars) ==
  /\ Len(chars) > 0
  /\ \A i \in 1..Len(chars) : \E d \in 1..10 : Digits[d] = chars[i]

RECURSIVE parseDecimal(_)
parseDecimal(chars) ==
  IF chars = <<>> THEN 0
  ELSE 10 * parseDecimal(SubSeq(chars, 1, Len(chars) - 1))
       + (CHOOSE d \in 0..9 : Digits[d + 1] = chars[Len(chars)])

\* bigint.toString()
bigintToString(b) ==
  IF "bigint" \in DOMAIN b THEN Str(Decimal(b.bigint))
  ELSE DecimalOfField(b.field)

\* BigInt(v) of what the codec hands it: a string of digits as toString
\* writes it, or undefined or null, for which BigInt throws a TypeError
BigInt(v) ==
  IF "decimalOfField" \in DOMAIN v THEN Ok(FieldOf(v.decimalOfField))
  ELSE IF ~isString(v) THEN Throw("TypeError")
  ELSE IF ~isDecimal(v.str) THEN Throw("SyntaxError")
  ELSE Ok(BigIntOf(parseDecimal(v.str)))

\* hexToUint8Array(v); a value that is no string has no startsWith
hexToUint8ArrayOf(v) ==
  IF ~isString(v) THEN Throw("TypeError") ELSE hexToUint8Array(v.str)

(***************************************************************************)
(* msgpack: undefined is written as nil, nil is read as null               *)
(***************************************************************************)
Nil == [nil |-> TRUE]

RECURSIVE encode(_)
encode(v) ==
  IF v = None \/ v = Null THEN Nil
  ELSE IF isObject(v) THEN [k \in DOMAIN v |-> encode(v[k])]
  ELSE v

RECURSIVE decode(_)
decode(w) ==
  IF w = Nil THEN Null
  ELSE IF isObject(w) THEN [k \in DOMAIN w |-> decode(w[k])]
  ELSE w

(***************************************************************************)
(* token-utils.ts                                                          *)
(***************************************************************************)
\* the scalar field of the SNARK (a 254-bit prime in the source), scaled
SNARK_PRIME == 251

\* a 32-byte digest that is a function of the input
keccak256(bytes) ==
  LET w == WeightedSum(bytes, 1, Len(bytes))
  IN [i \in 1..32 |-> ((w + 3 * i) * (2 * i + 17) + Len(bytes)) % 256]

padStart(chars, targetLength, padChar) ==
  IF Len(chars) >= targetLength THEN chars
  ELSE Rep(padChar, targetLength - Len(chars)) \o chars

computeTokenHashERC20(tokenAddress) ==
  IF ~isString(tokenAddress) THEN Throw("TypeError")
  ELSE Ok(Str(<<"0", "x">> \o padStart(strip0x(tokenAddress.str), 64, "0")))

\* typedArray.set(source, offset) throws a RangeError when the source does
\* not fit behind the offset
setBytes(target, source, offset) ==
  IF offset < 0 \/ offset + Len(source) > Len(target) THEN Throw("RangeError")
  ELSE Ok([i \in 1..Len(target) |->
             IF i > offset /\ i <= offset + Len(source) THEN source[i - offset]
             ELSE target[i]])

computeTokenHashNFT(tokenData) ==
  Const(hexToUint8ArrayOf(tokenData.tokenAddress), LAMBDA tokenAddressBytes :
    IF ~tokenAddressBytes.ok THEN tokenAddressBytes
    ELSE Const(setBytes(Rep(0, 32), tokenAddressBytes.v, 32 - Len(tokenAddressBytes.v)),
               LAMBDA paddedAddress :
      IF ~paddedAddress.ok THEN paddedAddress
      ELSE Const(hexToUint8ArrayOf(tokenData.tokenSubID), LAMBDA tokenSubIDBytes :
        IF ~tokenSubIDBytes.ok THEN tokenSubIDBytes
        ELSE Const(setBytes(bigintToUint8Array(tokenData.tokenType.num, 32)
                            \o paddedAddress.v \o Rep(0, 32),
                            tokenSubIDBytes.v, 64), LAMBDA combined :
          IF ~combined.ok THEN combined
          ELSE Ok(Str(uint8ArrayToHex(
                    bigintToUint8Array(
                      uint8ArrayToBigIntMod(keccak256(combined.v), SNARK_PRIME), 32),
                    TRUE)))))))

computeTokenHash(tokenData) ==
  IF tokenData.tokenType = Num(0) THEN computeTokenHashERC20(tokenData.tokenAddress)
  ELSE IF tokenData.tokenType \in {Num(1), Num(2)} THEN computeTokenHashNFT(tokenData)
  ELSE Throw("Unrecognized token type")

isHexString(chars) ==
  \A i \in 1..Len(chars) :
    \/ \E k \in 1..16 : HexChars[k] = chars[i]
    \/ chars[i] \in {"A", "B", "C", "D", "E", "F"}

RECURSIVE hexValue(_)
hexValue(chars) ==
  IF chars = <<>> THEN 0
  ELSE 16 * hexValue(SubSeq(chars, 1, Len(chars) - 1)) + HexVal(chars[Len(chars)])

\* BigInt(string): the empty string is 0n, 0x and hex digits or decimal
\* digits are their value, anything else is a SyntaxError
StringToBigInt(chars) ==
  IF chars = <<>> THEN Ok(0)
  ELSE IF startsWith0x(chars)
  THEN IF Len(chars) = 2 \/ ~isHexString(strip0x(chars)) THEN Throw("SyntaxError")
       ELSE Ok(hexValue(strip0x(chars)))
  ELSE IF isDecimal(chars) THEN Ok(parseDecimal(chars))
  ELSE Throw("SyntaxError")

\* if (!tokenSubID || tokenSubID === '0x' || tokenSubID === '0x0')
noSubID(tokenSubID) ==
  \/ ~truthy(tokenSubID)
  \/ tokenSubID = Str(<<"0", "x">>)
  \/ tokenSubID = Str(<<"0", "x", "0">>)

\* the switch of assertValidNoteToken on an ERC721 token
assertValidERC721(tokenData, value) ==
  IF Len(strip0x(tokenData.tokenAddress.str)) # 40
  THEN Throw("ERC721 address must be length 40 (20 bytes).")
  ELSE IF noSubID(tokenData.tokenSubID)
  THEN Throw("ERC721 note must have tokenSubID parameter.")
  ELSE IF value # BigIntOf(1) THEN Throw("ERC721 note must have value of 1.")
  ELSE Ok(None)

assertValidNoteToken(tokenData, value) ==
  Const(Len(strip0x(tokenData.tokenAddress.str)), LAMBDA addressLength :
    IF tokenData.tokenType = Num(0)
    THEN IF addressLength # 40 /\ addressLength # 64
         THEN Throw("ERC20 address must be length 40 (20 bytes) or 64 (32 bytes).")
         ELSE Const(IF isString(tokenData.tokenSubID)
                    THEN StringToBigInt(tokenData.tokenSubID.str)
                    ELSE Throw("TypeError"), LAMBDA subID :
                IF ~subID.ok THEN subID
                ELSE IF subID.v # 0
                THEN Throw("ERC20 note cannot have tokenSubID parameter.")
                ELSE Ok(None))
    ELSE IF tokenData.tokenType = Num(1) THEN assertValidERC721(tokenData, value)
    ELSE IF tokenData.tokenType = Num(2)
    THEN IF addressLength # 40
         THEN Throw("ERC1155 address must be length 40 (20 bytes).")
         ELSE IF noSubID(tokenData.tokenSubID)
         THEN Throw("ERC1155 note must have tokenSubID parameter.")
         ELSE Ok(None)
    ELSE Throw("Unrecognized token type"))

\* data.tokenAddress of undefined or null is a TypeError
deserializeTokenData(data) ==
  IF ~isObject(data) THEN Throw("TypeError")
  ELSE Ok([tokenAddress |-> Get(data, "tokenAddress"),
           tokenType |-> Get(data, "tokenType"),
           tokenSubID |-> Get(data, "tokenSubID")])

(***************************************************************************)
(* note-utils.ts                                                           *)
(***************************************************************************)
\* collision free: the digest stands for its preimage
poseidon(inputs) == [poseidon |-> inputs]

\* the width of the value handed to Poseidon
NoteValueBytes == 16

\* the three byte arrays that getNoteHash hands to Poseidon
getNoteHashInputs(address, tokenData, value) ==
  Const(computeTokenHash(tokenData), LAMBDA tokenHash :
    IF ~tokenHash.ok THEN tokenHash
    ELSE Const(hexToUint8ArrayOf(address), LAMBDA addressBytes :
      IF ~addressBytes.ok THEN addressBytes
      ELSE Const(hexToUint8ArrayOf(tokenHash.v), LAMBDA tokenHashBytes :
        IF ~tokenHashBytes.ok THEN tokenHashBytes
        ELSE Ok(<<addressBytes.v, tokenHashBytes.v,
                  bigintToUint8Array(value.bigint, NoteValueBytes)>>))))

\* getNoteHash that leaves the value out of the hash
getNoteHashNoValue(address, tokenData, value) ==
  Const(getNoteHashInputs(address, tokenData, value), LAMBDA inputs :
    IF ~inputs.ok THEN inputs
    ELSE Ok(FieldOf(poseidon(SubSeq(inputs.v, 1, 2)))))

getNoteHash(address, tokenData, value) ==
  Const(getNoteHashInputs(address, tokenData, value), LAMBDA inputs :
    IF ~inputs.ok THEN inputs ELSE Ok(FieldOf(poseidon(inputs.v))))

(***************************************************************************)
(* The note classes                                                        *)
(***************************************************************************)
\* the arguments of a call are evaluated in order; the first that throws
\* ends the call, otherwise the body runs on their values
Try(results, Body(_)) ==
  IF \E i \in 1..Len(results) : ~results[i].ok
  THEN results[CHOOSE i \in 1..Len(results) :
                 /\ ~results[i].ok
                 /\ \A j \in 1..(i - 1) : results[j].ok]
  ELSE Body([i \in 1..Len(results) |-> results[i].v])

\* constructor of the abstract class Note
Note(notePublicKey, value, tokenData, random) ==
  IF ~isObject(tokenData) THEN Throw("TypeError")
  ELSE Const(computeTokenHash(tokenData), LAMBDA tokenHash :
    IF ~tokenHash.ok THEN tokenHash
    ELSE Ok([notePublicKey |-> notePublicKey,
             value |-> value,
             tokenData |-> tokenData,
             tokenHash |-> tokenHash.v,
             random |-> random]))

\* the optional trailing arguments of the TransactNote constructor
OptionalNames == {"outputType", "walletSource", "senderRandom", "memoText",
                 "shieldFee", "blockNumber"}

NoOptional == [k \in OptionalNames |-> None]

TransactNote(notePublicKey, value, tokenData, random, hash, receiverAddressData, senderAddressData, optional) ==
  Try(<<Note(notePublicKey, value, tokenData, random)>>, LAMBDA super :
    Ok(super[1] @@ optional @@
       [type |-> "TransactNote",
        hash |-> hash,
        receiverAddressData |-> receiverAddressData,
        senderAddressData |-> senderAddressData]))

UnshieldNote(notePublicKey, value, tokenData, random, toAddress, hash, allowOverride) ==
  Try(<<Note(notePublicKey, value, tokenData, random)>>, LAMBDA super :
    Ok(super[1] @@
       [type |-> "UnshieldNote",
        toAddress |-> toAddress,
        hash |-> hash,
        allowOverride |-> allowOverride]))

ShieldNote(notePublicKey, value, tokenData, random, masterPublicKey) ==
  Try(<<Note(notePublicKey, value, tokenData, random)>>, LAMBDA super :
    Ok(super[1] @@
       [type |-> "ShieldNote",
        masterPublicKey |-> masterPublicKey]))

\* token: { tokenAddress, tokenType, tokenSubID } as serialize writes it
serializeToken(tokenData) ==
  [tokenAddress |-> tokenData.tokenAddress,
   tokenType |-> tokenData.tokenType,
   tokenSubID |-> tokenData.tokenSubID]

\* { masterPublicKey: ....toString(), viewingPublicKey: uint8ArrayToHex(...) }
\* of an address data that is there, undefined otherwise
serializeAddressData(addressData) ==
  IF truthy(addressData)
  THEN [masterPublicKey |-> bigintToString(addressData.masterPublicKey),
        viewingPublicKey |->
          Str(uint8ArrayToHex(addressData.viewingPublicKey.bytes, TRUE))]
  ELSE None

\* { masterPublicKey: BigInt(...), viewingPublicKey: hexToUint8Array(...) }
deserializeAddressData(data) ==
  Try(<<BigInt(Get(data, "masterPublicKey")),
        hexToUint8ArrayOf(Get(data, "viewingPublicKey"))>>, LAMBDA a :
    Ok([masterPublicKey |-> a[1], viewingPublicKey |-> Bytes(a[2])]))

TransactNoteSerialize(this) ==
  encode([random |-> this.random,
          tokenHash |-> this.tokenHash,
          notePublicKey |-> this.notePublicKey,
          value |-> bigintToString(this.value),
          hash |-> bigintToString(this.hash),
          outputType |-> this.outputType,
          walletSource |-> this.walletSource,
          senderRandom |-> this.senderRandom,
          memoText |-> this.memoText,
          shieldFee |-> this.shieldFee,
          blockNumber |-> this.blockNumber,
          token |-> serializeToken(this.tokenData),
          receiverAddressData |-> serializeAddressData(this.receiverAddressData),
          senderAddressData |-> serializeAddressData(this.senderAddressData)])

TransactNoteDeserialize(bytes) ==
  Const(decode(bytes), LAMBDA data :
    Try(<<IF truthy(Get(data, "receiverAddressData"))
          THEN deserializeAddressData(data.receiverAddressData)
          ELSE Ok([masterPublicKey |-> BigIntOf(0),
                   viewingPublicKey |-> Bytes(Rep(0, 32))]),
          BigInt(Get(data, "value")),
          deserializeTokenData(Get(data, "token")),
          BigInt(Get(data, "hash")),
          IF truthy(Get(data, "senderAddressData"))
          THEN deserializeAddressData(data.senderAddressData)
          ELSE Ok(None)>>, LAMBDA a :
      TransactNote(Get(data, "notePublicKey"), a[2], a[3], Get(data, "random"),
                   a[4], a[1], a[5],
                   [k \in OptionalNames |-> Get(data, k)])))

TransactNoteFromCommitment(random, npk, value, tokenData, receiverAddressData, senderAddressData) ==
  Try(<<getNoteHash(npk, tokenData, value)>>, LAMBDA hash :
    TransactNote(npk, value, tokenData, random, hash[1], receiverAddressData,
                 senderAddressData, NoOptional))

UnshieldNoteSerialize(this) ==
  encode([random |-> this.random,
          toAddress |-> this.toAddress,
          notePublicKey |-> this.notePublicKey,
          value |-> bigintToString(this.value),
          hash |-> bigintToString(this.hash),
          allowOverride |-> this.allowOverride,
          token |-> serializeToken(this.tokenData)])

UnshieldNoteDeserialize(bytes) ==
  Const(decode(bytes), LAMBDA data :
    Try(<<BigInt(Get(data, "value")),
          deserializeTokenData(Get(data, "token")),
          BigInt(Get(data, "hash"))>>, LAMBDA a :
      UnshieldNote(Get(data, "notePublicKey"), a[1], a[2], Get(data, "random"),
                   Get(data, "toAddress"), a[3], Get(data, "allowOverride"))))

\* 'ERC20' -> 0, 'ERC721' -> 1, 'ERC1155' -> 2 of the upper-cased name; the
\* names of the token types are whole strings here
tokenTypeNum(tokenType) ==
  CASE tokenType \in {"ERC20", "erc20"} -> Ok(Num(0))
    [] tokenType \in {"ERC721", "erc721"} -> Ok(Num(1))
    [] tokenType \in {"ERC1155", "erc1155"} -> Ok(Num(2))
    [] OTHER -> Throw("Invalid tokenType")

\* { tokenType: tokenTypeNum, tokenAddress: uint8ArrayToHex(...), ... }
tokenDataOfPreimage(token) ==
  Try(<<tokenTypeNum(token.tokenType)>>, LAMBDA t :
    Ok([tokenType |-> t[1],
        tokenAddress |-> Str(uint8ArrayToHex(token.tokenAddress, TRUE)),
        tokenSubID |-> Str(uint8ArrayToHex(token.tokenSubID, TRUE))]))

UnshieldNoteFromUnshield(unshield, random) ==
  Try(<<tokenDataOfPreimage(unshield.token)>>, LAMBDA tokenData :
    Const(Str(uint8ArrayToHex(unshield.to, TRUE)), LAMBDA toAddress :
      Try(<<getNoteHash(toAddress, tokenData[1], unshield.amount)>>, LAMBDA hash :
        UnshieldNote(toAddress, unshield.amount, tokenData[1], random, toAddress,
                     hash[1], Bool(FALSE)))))

ShieldNoteSerialize(this) ==
  encode([random |-> this.random,
          tokenHash |-> this.tokenHash,
          notePublicKey |-> this.notePublicKey,
          value |-> bigintToString(this.value),
          masterPublicKey |-> bigintToString(this.masterPublicKey),
          token |-> serializeToken(this.tokenData)])

\* ShieldNote.deserialize that keeps the tokenHash of the input
ShieldNoteDeserializeCopyingTokenHash(bytes) ==
  Const(decode(bytes), LAMBDA data :
    Try(<<BigInt(Get(data, "value")),
          deserializeTokenData(Get(data, "token")),
          BigInt(Get(data, "masterPublicKey"))>>, LAMBDA a :
      Try(<<ShieldNote(Get(data, "notePublicKey"), a[1], a[2], Get(data, "random"),
                       a[3])>>, LAMBDA n :
        Ok([n[1] EXCEPT !.tokenHash = Get(data, "tokenHash")]))))

ShieldNoteDeserialize(bytes) ==
  Const(decode(bytes), LAMBDA data :
    Try(<<BigInt(Get(data, "value")),
          deserializeTokenData(Get(data, "token")),
          BigInt(Get(data, "masterPublicKey"))>>, LAMBDA a :
      ShieldNote(Get(data, "notePublicKey"), a[1], a[2], Get(data, "random"), a[3])))

\* commitment.encryptedRandom?.[0] or commitment.encryptedBundle?.[0]
commitmentRandomBytes(commitment) ==
  IF "encryptedRandom" \in DOMAIN commitment
  THEN IF Len(commitment.encryptedRandom) = 0 THEN None
       ELSE Bytes(commitment.encryptedRandom[1])
  ELSE IF "encryptedBundle" \notin DOMAIN commitment THEN None
  ELSE IF Len(commitment.encryptedBundle) = 0 THEN None
  ELSE Bytes(commitment.encryptedBundle[1])

ShieldNoteFromCommitment(commitment, masterPublicKey) ==
  Const(commitmentRandomBytes(commitment), LAMBDA randomBytes :
    IF randomBytes = None THEN Throw("Missing random data in commitment")
    ELSE Try(<<IF "shieldKey" \in DOMAIN commitment
               THEN Ok(BigIntOf(uint8ArrayToBigInt(commitment.shieldKey)))
               ELSE IF masterPublicKey # None THEN Ok(masterPublicKey)
               ELSE Throw("Missing masterPublicKey"),
               tokenDataOfPreimage(commitment.preimage.token)>>, LAMBDA a :
      ShieldNote(Str(uint8ArrayToHex(commitment.preimage.npk, TRUE)),
                 commitment.preimage.value, a[2],
                 Str(uint8ArrayToHex(randomBytes.bytes, TRUE)), a[1])))

\* '0x' + '00'.repeat(32)
ZeroAddressHex == <<"0", "x">> \o Rep("0", 64)

\* serializeLegacy; iv is the nonce that AES.encryptGCM draws
TransactNoteSerializeLegacy(this, viewingPrivateKey, receiverViewingPublicKey, iv) ==
  Const(getSharedSymmetricKey(viewingPrivateKey, receiverViewingPublicKey),
        LAMBDA sharedKey :
    IF sharedKey = None THEN Throw("Failed to generate shared symmetric key")
    ELSE Try(<<hexToUint8ArrayOf(this.random)>>, LAMBDA randomBytes :
      Const(encryptGCM(<<randomBytes[1]>>, sharedKey, iv), LAMBDA ciphertext :
        Ok(encode(
          [npk |-> this.notePublicKey,
           value |-> bigintToString(this.value),
           tokenHash |-> this.tokenHash,
           encryptedRandom |->
             Arr(<<Str(uint8ArrayToHex(ciphertext.iv, FALSE)
                       \o uint8ArrayToHex(ciphertext.tag, FALSE)),
                   Str(uint8ArrayToHex(ciphertext.data[1], FALSE))>>),
           memoField |-> Arr(<<>>),
           recipientAddress |->
             IF truthy(this.receiverAddressData)
             THEN Str(uint8ArrayToHex(
                        this.receiverAddressData.viewingPublicKey.bytes, TRUE))
             ELSE Str(ZeroAddressHex),
           memoText |-> this.memoText,
           blockNumber |-> this.blockNumber])))))

\* the encrypted random of a legacy note, opened with the shared key
decryptLegacyRandom(encryptedRandom, sharedKey) ==
  IF "arr" \notin DOMAIN encryptedRandom THEN Throw("TypeError")
  ELSE Const(encryptedRandom.arr[1].str, LAMBDA ivTag :
    Try(<<hexToUint8Array(<<"0", "x">> \o SubSeq(ivTag, 1, 32)),
          hexToUint8Array(<<"0", "x">> \o SubSeq(ivTag, 33, Len(ivTag))),
          hexToUint8Array(<<"0", "x">> \o encryptedRandom.arr[2].str)>>, LAMBDA c :
      Try(<<decryptGCM([iv |-> c[1], tag |-> c[2], data |-> <<c[3]>>], sharedKey)>>,
          LAMBDA decrypted :
        Ok(Str(uint8ArrayToHex(decrypted[1][1], TRUE))))))

TransactNoteDeserializeLegacy(bytes, viewingPrivateKey, senderViewingPublicKey) ==
  Const(decode(bytes), LAMBDA data :
    Const(getSharedSymmetricKey(viewingPrivateKey, senderViewingPublicKey),
          LAMBDA sharedKey :
      IF sharedKey = None THEN Throw("Failed to generate shared symmetric key")
      ELSE Const([tokenType |-> Num(0),
                  tokenAddress |-> Get(data, "tokenHash"),
                  tokenSubID |-> Str(<<"0", "x", "0", "0">>)], LAMBDA tokenData :
        Try(<<decryptLegacyRandom(Get(data, "encryptedRandom"), sharedKey),
              hexToUint8ArrayOf(Get(data, "recipientAddress")),
              BigInt(Get(data, "value"))>>, LAMBDA a :
          Try(<<getNoteHash(Get(data, "npk"), tokenData, a[3])>>, LAMBDA hash :
            TransactNote(Get(data, "npk"), a[3], tokenData, a[1], hash[1],
                         [masterPublicKey |-> BigIntOf(0),
                          viewingPublicKey |-> Bytes(a[2])],
                         None,
                         [NoOptional EXCEPT !.memoText = Get(data, "memoText"),
                                            !.blockNumber = Get(data, "blockNumber")]))))))

\* the serialize method of the class of the note
Serialize(this) ==
  CASE this.type = "TransactNote" -> TransactNoteSerialize(this)
    [] this.type = "UnshieldNote" -> UnshieldNoteSerialize(this)
    [] this.type = "ShieldNote" -> ShieldNoteSerialize(this)

\* the static deserialize method of the class
Deserialize(type, bytes) ==
  CASE type = "TransactNote" -> TransactNoteDeserialize(bytes)
    [] type = "UnshieldNote" -> UnshieldNoteDeserialize(bytes)
    [] type = "ShieldNote" -> ShieldNoteDeserialize(bytes)

(***************************************************************************)
(* Inputs                                                                  *)
(***************************************************************************)
Key32(b) == Rep(b, 32)

\* viewing private keys of the wallets of the model
PrivKeys == <<Key32(1), Key32(2), Key32(3)>>

Wallets == 1..Len(PrivKeys)

\* the viewing key pair of each wallet: pubkey = getPublicViewingKey(privateKey)
ViewingKeyPairs ==
  [w \in Wallets |-> [privateKey |-> PrivKeys[w],
                      pubkey |-> getPublicViewingKey(PrivKeys[w])]]

RandomBytes == {0, 1, 165}

Randoms == UNION {[1..n -> RandomBytes] : n \in 1..MaxRandomLen}

\* encodings handed in as a blinded key that are not the output of a blinding
ForeignKeys == <<PointToRawBytes(5), Rep(255, 32), <<1, 2, 3>>>>

(***************************************************************************)
(* Blinding and unblinding of viewing public keys                          *)
(***************************************************************************)
Idle == [st |-> "none"]

\* no wallet, path or probe is in play
KeysIdle ==
  /\ libs = FALSE /\ heap = <<>> /\ wallets = <<>> /\ ret = Idle /\ written = {}
  /\ pth = Idle /\ dn = Idle /\ pb = Idle

\* no note, commitment or blinding is in play
NotesIdle ==
  /\ bk = Idle /\ ub = Idle /\ dc = Idle /\ note = Idle /\ wire = Idle
  /\ back = Idle /\ hp = Idle

InitBlinding ==
  /\ bk = Idle /\ ub = Idle
  /\ dc = Idle /\ note = Idle /\ wire = Idle /\ back = Idle /\ hp = Idle
  /\ KeysIdle

GetNoteBlindingKeys ==
  \E s \in Wallets, r \in Wallets, sharedRandom \in Randoms, senderRandom \in Randoms :
    /\ bk.st = "none"
    /\ bk' = [st |-> "called",
              senderViewingPublicKey |-> ViewingKeyPairs[s].pubkey,
              receiverViewingPublicKey |-> ViewingKeyPairs[r].pubkey,
              sharedRandom |-> sharedRandom,
              senderRandom |-> senderRandom,
              result |-> getNoteBlindingKeys(ViewingKeyPairs[s].pubkey,
                                             ViewingKeyPairs[r].pubkey,
                                             sharedRandom, senderRandom)]
    /\ UNCHANGED <<keyVars, ub, dc, note, wire, back, hp>>

\* unblindNoteKey on a key that getNoteBlindingKeys returned, same randoms
UnblindNoteKey ==
  \E which \in {"sender", "receiver"} :
    /\ bk.st = "called" /\ bk.result.ok /\ ub.st = "none"
    /\ LET blindedNoteKey == IF which = "sender"
                             THEN bk.result.v.blindedSenderViewingKey
                             ELSE bk.result.v.blindedReceiverViewingKey
       IN ub' = [st |-> "called", which |-> which,
                 blindedNoteKey |-> blindedNoteKey,
                 out |-> unblindNoteKey(blindedNoteKey, bk.sharedRandom, bk.senderRandom)]
    /\ UNCHANGED <<keyVars, bk, dc, note, wire, back, hp>>

\* unblindNoteKey on any other bytes
UnblindForeignKey ==
  \E k \in 1..Len(ForeignKeys) :
    /\ bk.st = "called" /\ ub.st = "none"
    /\ ub' = [st |-> "called", which |-> "foreign",
               blindedNoteKey |-> ForeignKeys[k],
               out |-> unblindNoteKey(ForeignKeys[k], bk.sharedRandom, bk.senderRandom)]
    /\ UNCHANGED <<keyVars, bk, dc, note, wire, back, hp>>

NextBlinding == GetNoteBlindingKeys \/ UnblindNoteKey \/ UnblindForeignKey

SpecBlinding == InitBlinding /\ [][NextBlinding]_vars

(***************************************************************************)
(* Trial decryption: one call of decryptCommitmentAsReceiverOrSender       *)
(***************************************************************************)
\* the 101-byte block random | npk | value | tokenAddress | tokenType | tokenSubID
CommitmentBlock(tokenType) ==
  Rep(17, RandomLen) \o Rep(34, NpkLen) \o bigintToUint8Array(1000, ValueLen)
  \o Rep(170, TokenAddressLen) \o Rep(tokenType, TokenTypeLen)
  \o bigintToUint8Array(IF tokenType = 0 THEN 0 ELSE 5, TokenSubIDLen)

\* what the payer seals: a whole block, a block cut short by one byte, a
\* block with a byte after it, or no block at all
SealedBlocks ==
  [whole |-> <<CommitmentBlock(0)>>,
   nft |-> <<CommitmentBlock(1)>>,
   short |-> <<SubSeq(CommitmentBlock(0), 1, Len(CommitmentBlock(0)) - 1)>>,
   long |-> <<CommitmentBlock(0) \o <<9>>>>,
   noblock |-> <<>>]

CiphertextKinds == {"whole", "nft", "short", "long", "noblock", "tampered", "badiv"}

Ivs == {Rep(0, 16), Rep(7, 16)}

\* the viewing private key of the caller; caller 0 holds a key of 31 bytes
CallerKey(c) == IF c = 0 THEN Rep(1, 31) ELSE ViewingKeyPairs[c].privateKey

SingleByteRandoms == {r \in Randoms : Len(r) = 1}

InitDecrypt ==
  /\ dc = Idle
  /\ bk = Idle /\ ub = Idle /\ note = Idle /\ wire = Idle /\ back = Idle /\ hp = Idle
  /\ KeysIdle

\* The payer blinds both viewing keys and seals the block under the key it
\* shares with the payee; a wallet then calls
\* decryptCommitmentAsReceiverOrSender on the commitment.
DcCall ==
  \E s \in Wallets, r \in Wallets, c \in 0..Len(PrivKeys),
     sharedRandom \in SingleByteRandoms, senderRandom \in SingleByteRandoms,
     kind \in CiphertextKinds, iv \in Ivs, foreign \in 0..Len(ForeignKeys) :
    LET blind == getNoteBlindingKeys(ViewingKeyPairs[s].pubkey, ViewingKeyPairs[r].pubkey,
                                     sharedRandom, senderRandom)
        sealKey == getSharedSymmetricKey(ViewingKeyPairs[s].privateKey,
                                         blind.v.blindedReceiverViewingKey)
        sealed == encryptGCM(SealedBlocks[IF kind \in DOMAIN SealedBlocks
                                          THEN kind ELSE "whole"], sealKey, iv)
        ciphertext ==
          CASE kind = "tampered" ->
                 [sealed EXCEPT !.tag = [sealed.tag EXCEPT ![16] = 255]]
            [] kind = "badiv" -> [sealed EXCEPT !.iv = <<0>>]
            [] OTHER -> sealed
    IN /\ dc.st = "none"
       /\ (foreign # 0 => kind = "whole")
       /\ (kind # "whole" => iv = Rep(0, 16))
       /\ blind.ok
       /\ sealKey # None
       /\ dc' = [st |-> "Encrypted",
                 sender |-> s, receiver |-> r, caller |-> c,
                 kind |-> kind, foreign |-> foreign,
                 ciphertext |-> ciphertext,
                 blindedReceiverViewingKey |->
                   IF foreign = 0 THEN blind.v.blindedReceiverViewingKey
                   ELSE ForeignKeys[foreign],
                 blindedSenderViewingKey |->
                   IF foreign = 0 THEN blind.v.blindedSenderViewingKey
                   ELSE ForeignKeys[foreign],
                 viewingPrivateKey |-> CallerKey(c),
                 attempts |-> <<>>,
                 receiverCall |-> None, senderCall |-> None, result |-> None]
       /\ UNCHANGED <<keyVars, bk, ub, note, wire, back, hp>>

\* const receiverData = await decryptCommitment(ciphertext, blindedReceiverViewingKey, ...)
\* if (receiverData) return { data: receiverData, isReceiver: true }
DcTryReceiverAndGoOn ==
  /\ dc.st = "Encrypted"
  /\ LET call == decryptCommitment(dc.ciphertext, dc.blindedReceiverViewingKey,
                                   dc.viewingPrivateKey)
     IN dc' = [dc EXCEPT !.attempts = Append(@, "receiver"),
                         !.receiverCall = call,
                         !.st = IF ~call.ok THEN "Threw" ELSE "ReceiverFailed"]
  /\ UNCHANGED <<keyVars, bk, ub, note, wire, back, hp>>

DcTryReceiver ==
  /\ dc.st = "Encrypted"
  /\ LET call == decryptCommitment(dc.ciphertext, dc.blindedReceiverViewingKey,
                                   dc.viewingPrivateKey)
     IN dc' = [dc EXCEPT !.attempts = Append(@, "receiver"),
                         !.receiverCall = call,
                         !.st = IF ~call.ok THEN "Threw"
                                ELSE IF call.v # Null THEN "DecryptedAsReceiver"
                                ELSE "ReceiverFailed",
                         !.result = IF call.ok /\ call.v # Null
                                    THEN [data |-> call.v, isReceiver |-> TRUE]
                                    ELSE @]
  /\ UNCHANGED <<keyVars, bk, ub, note, wire, back, hp>>

\* const senderData = await decryptCommitment(ciphertext, blindedSenderViewingKey, ...)
\* if (senderData) return { data: senderData, isReceiver: false }
\* return null
DcTrySender ==
  /\ dc.st = "ReceiverFailed"
  /\ LET call == decryptCommitment(dc.ciphertext, dc.blindedSenderViewingKey,
                                   dc.viewingPrivateKey)
     IN dc' = [dc EXCEPT !.attempts = Append(@, "sender"),
                         !.senderCall = call,
                         !.st = IF ~call.ok THEN "Threw"
                                ELSE IF call.v # Null THEN "DecryptedAsSender"
                                ELSE "Unrecognized",
                         !.result = IF call.ok /\ call.v # Null
                                    THEN [data |-> call.v, isReceiver |-> FALSE]
                                    ELSE Null]
  /\ UNCHANGED <<keyVars, bk, ub, note, wire, back, hp>>

NextDecrypt == DcCall \/ DcTryReceiver \/ DcTrySender

SpecDecrypt == InitDecrypt /\ [][NextDecrypt]_vars

DcReturned == dc.st \in {"DecryptedAsReceiver", "DecryptedAsSender", "Unrecognized"}

\* the payer sealed a whole block and the commitment carries the blinded keys
DcHonest ==
  /\ dc.st # "none"
  /\ dc.kind \in {"whole", "nft"} /\ dc.foreign = 0
  /\ dc.sender # dc.receiver

\* C2: the payee's call returns isReceiver = true, the payer's call returns
\* isReceiver = false, the call of any third wallet returns null.
C2_OwnNoteInCorrectRole ==
  (DcReturned /\ DcHonest /\ dc.caller # 0) =>
    /\ dc.caller = dc.receiver => (dc.result # Null /\ dc.result.isReceiver = TRUE)
    /\ dc.caller = dc.sender => (dc.result # Null /\ dc.result.isReceiver = FALSE)
    /\ dc.caller \notin {dc.sender, dc.receiver} => dc.result = Null

\* the payee of an honest payment asked
C2_PayeeCalled ==
  /\ DcReturned /\ DcHonest
  /\ dc.caller = dc.receiver

\* what one attempt of the call would return with the given blinded key
DcAttempt(blindedViewingKey) ==
  decryptCommitment(dc.ciphertext, blindedViewingKey, dc.viewingPrivateKey).v

\* C3: the receiver attempt comes first, the sender attempt only after a
\* receiver attempt that returned null, never more than two attempts; the
\* result is isReceiver = true iff the receiver key opens the ciphertext,
\* isReceiver = false iff only the sender key does, null iff neither does;
\* after an outcome nothing of the call changes any more.
C3_StateMachine ==
  /\ [](dc.st # "none" =>
         /\ dc.st \in {"Encrypted", "ReceiverFailed", "DecryptedAsReceiver",
                       "DecryptedAsSender", "Unrecognized"}
         /\ dc.st = "Encrypted" <=> dc.attempts = <<>>
         /\ dc.st \in {"ReceiverFailed", "DecryptedAsReceiver"}
              <=> dc.attempts = <<"receiver">>
         /\ dc.st = "ReceiverFailed" => dc.receiverCall = Ok(Null)
         /\ dc.st \in {"DecryptedAsSender", "Unrecognized"}
              <=> dc.attempts = <<"receiver", "sender">>
         /\ dc.senderCall # None => dc.receiverCall = Ok(Null)
         /\ DcReturned =>
              /\ (dc.result # Null /\ dc.result.isReceiver = TRUE)
                   <=> DcAttempt(dc.blindedReceiverViewingKey) # Null
              /\ (dc.result # Null /\ dc.result.isReceiver = FALSE)
                   <=> /\ DcAttempt(dc.blindedReceiverViewingKey) = Null
                       /\ DcAttempt(dc.blindedSenderViewingKey) # Null
              /\ dc.result = Null
                   <=> /\ DcAttempt(dc.blindedReceiverViewingKey) = Null
                       /\ DcAttempt(dc.blindedSenderViewingKey) = Null
              /\ dc.result # Null =>
                   dc.result.data = DcAttempt(IF dc.result.isReceiver
                                              THEN dc.blindedReceiverViewingKey
                                              ELSE dc.blindedSenderViewingKey))
  /\ [][DcReturned => dc' = dc]_vars

\* both blinded keys open the ciphertext and the call stopped after the first
C3_Witness ==
  /\ dc.st = "DecryptedAsReceiver"
  /\ dc.attempts = <<"receiver">>
  /\ DcAttempt(dc.blindedSenderViewingKey) # Null
  /\ dc.result.isReceiver = TRUE

\* the inputs on which the try block of decryptCommitment cannot reach its
\* end: a ciphertext AES-GCM rejects, no first block or a short one, a
\* private key of 31 bytes, a blinded key that is no point, a third wallet
DcMustFail ==
  \/ dc.kind \in {"tampered", "badiv", "noblock", "short"}
  \/ dc.caller = 0
  \/ dc.foreign \in {2, 3}
  \/ dc.foreign = 0 /\ dc.caller \notin {dc.sender, dc.receiver}

DcFields == {"random", "npk", "value", "tokenData"}

\* C4: no call of decryptCommitment throws; a call that fails returns null;
\* a result that is not null has the fields random, npk, value and tokenData.
C4_DecryptCommitmentNeverThrows ==
  /\ (dc.st # "none" /\ dc.receiverCall # None) =>
        /\ dc.receiverCall.ok
        /\ DcMustFail => dc.receiverCall.v = Null
        /\ dc.receiverCall.v # Null => DOMAIN dc.receiverCall.v = DcFields
  /\ (dc.st # "none" /\ dc.senderCall # None) =>
        /\ dc.senderCall.ok
        /\ DcMustFail => dc.senderCall.v = Null
        /\ dc.senderCall.v # Null => DOMAIN dc.senderCall.v = DcFields

\* AES-GCM rejected the tag inside both attempts and the call returned null
C4_Witness ==
  /\ dc.st = "Unrecognized"
  /\ dc.kind = "tampered"
  /\ dc.caller = dc.sender
  /\ dc.receiverCall = Ok(Null) /\ dc.senderCall = Ok(Null)

NotePublicKeyBytes == Rep(34, 32)

NotePublicKey == Str(uint8ArrayToHex(NotePublicKeyBytes, TRUE))

TokenAddressBytes == Rep(170, TokenAddressLen)

\* an ERC20 token, an ERC721 token and a token of a type there is none of
TokenDatas ==
  <<[tokenType |-> Num(0),
     tokenAddress |-> Str(uint8ArrayToHex(TokenAddressBytes, TRUE)),
     tokenSubID |-> Str(<<"0", "x", "0", "0">>)],
    [tokenType |-> Num(1),
     tokenAddress |-> Str(uint8ArrayToHex(TokenAddressBytes, TRUE)),
     tokenSubID |-> Str(<<"0", "x", "0", "5">>)],
    [tokenType |-> Num(3),
     tokenAddress |-> Str(uint8ArrayToHex(TokenAddressBytes, TRUE)),
     tokenSubID |-> Str(<<"0", "x", "0", "0">>)]>>

NoteValue == BigIntOf(1000)

\* 16 random bytes in hex, with and without the 0x prefix
NoteRandoms ==
  <<Str(uint8ArrayToHex(Rep(17, RandomLen), TRUE)),
    Str(uint8ArrayToHex(Rep(17, RandomLen), FALSE))>>

\* an address with and without the optional chain and version
AddressDatas ==
  <<[masterPublicKey |-> BigIntOf(77),
     viewingPublicKey |-> Bytes(ViewingKeyPairs[2].pubkey)],
    [masterPublicKey |-> BigIntOf(77),
     viewingPublicKey |-> Bytes(ViewingKeyPairs[2].pubkey),
     chain |-> [type |-> Num(0), id |-> Num(1)],
     version |-> Num(3)]>>

\* the optional fields of a transact note: all absent, all there
Optionals ==
  <<NoOptional,
    [outputType |-> Num(1),
     walletSource |-> Str(<<"w">>),
     senderRandom |-> Str(<<"0", "x", "0", "1">>),
     memoText |-> Str(<<"h", "i">>),
     shieldFee |-> Str(<<"2", "5">>),
     blockNumber |-> Num(42)]>>

\* a hash that the caller of a constructor made up
MadeUpHash == BigIntOf(123)

\* the hash the caller passes: the note hash, or the made-up one
CallerHash(honest, notePublicKey, tokenData, value) ==
  Const(getNoteHash(notePublicKey, tokenData, value), LAMBDA hash :
    IF honest /\ hash.ok THEN hash.v ELSE MadeUpHash)

\* what the scanner hands to fromUnshield and fromCommitment
Preimages ==
  [t \in {"ERC20", "erc721", "ERC1155", "ERC777"} |->
     [npk |-> NotePublicKeyBytes,
      value |-> NoteValue,
      token |-> [tokenAddress |-> TokenAddressBytes,
                 tokenType |-> t,
                 tokenSubID |-> IF t = "ERC20" THEN Rep(0, 32)
                                ELSE bigintToUint8Array(5, 32)]]]

\* a generated commitment, a shield commitment, one without random data
Commitments(preimage) ==
  <<[preimage |-> preimage, encryptedRandom |-> <<Rep(17, RandomLen)>>],
    [preimage |-> preimage, encryptedBundle |-> <<Rep(17, RandomLen)>>,
     shieldKey |-> bigintToUint8Array(77, 32)],
    [preimage |-> preimage, encryptedBundle |-> <<>>,
     shieldKey |-> bigintToUint8Array(77, 32)]>>

InitNotes ==
  /\ note = Idle /\ wire = Idle /\ back = Idle
  /\ bk = Idle /\ ub = Idle /\ dc = Idle /\ hp = Idle
  /\ KeysIdle

Made(via, r) == [st |-> "made", via |-> via, r |-> r]

NewTransactNote ==
  \E t \in 1..Len(TokenDatas), random \in 1..Len(NoteRandoms),
     receiver \in 1..Len(AddressDatas), sender \in 0..1,
     optional \in 1..Len(Optionals), honest \in BOOLEAN :
    /\ note.st = "none"
    /\ note' = Made("constructor",
         TransactNote(NotePublicKey, NoteValue, TokenDatas[t], NoteRandoms[random],
                      CallerHash(honest, NotePublicKey, TokenDatas[t], NoteValue),
                      AddressDatas[receiver],
                      IF sender = 0 THEN None ELSE AddressDatas[sender],
                      Optionals[optional]))
    /\ UNCHANGED <<keyVars, wire, back, bk, ub, dc, hp>>

NewUnshieldNote ==
  \E t \in 1..Len(TokenDatas), random \in 1..Len(NoteRandoms),
     allowOverride \in BOOLEAN, honest \in BOOLEAN :
    /\ note.st = "none"
    /\ note' = Made("constructor",
         UnshieldNote(NotePublicKey, NoteValue, TokenDatas[t], NoteRandoms[random],
                      NotePublicKey,
                      CallerHash(honest, NotePublicKey, TokenDatas[t], NoteValue),
                      Bool(allowOverride)))
    /\ UNCHANGED <<keyVars, wire, back, bk, ub, dc, hp>>

NewShieldNote ==
  \E t \in 1..Len(TokenDatas), random \in 1..Len(NoteRandoms) :
    /\ note.st = "none"
    /\ note' = Made("constructor",
         ShieldNote(NotePublicKey, NoteValue, TokenDatas[t], NoteRandoms[random],
                    BigIntOf(77)))
    /\ UNCHANGED <<keyVars, wire, back, bk, ub, dc, hp>>

FromCommitmentTransact ==
  \E t \in 1..Len(TokenDatas), random \in 1..Len(NoteRandoms),
     receiver \in 1..Len(AddressDatas), sender \in 0..1 :
    /\ note.st = "none"
    /\ note' = Made("fromCommitment",
         TransactNoteFromCommitment(NoteRandoms[random], NotePublicKey, NoteValue,
                                    TokenDatas[t], AddressDatas[receiver],
                                    IF sender = 0 THEN None ELSE AddressDatas[sender]))
    /\ UNCHANGED <<keyVars, wire, back, bk, ub, dc, hp>>

FromUnshield ==
  \E t \in DOMAIN Preimages, random \in 1..Len(NoteRandoms) :
    /\ note.st = "none"
    /\ note' = Made("fromUnshield",
         UnshieldNoteFromUnshield([to |-> Rep(187, 20),
                                   token |-> Preimages[t].token,
                                   amount |-> Preimages[t].value],
                                  NoteRandoms[random]))
    /\ UNCHANGED <<keyVars, wire, back, bk, ub, dc, hp>>

FromCommitmentShield ==
  \E t \in DOMAIN Preimages, c \in 1..3, withKey \in BOOLEAN :
    /\ note.st = "none"
    /\ note' = Made("fromCommitment",
         ShieldNoteFromCommitment(Commitments(Preimages[t])[c],
                                  IF withKey THEN BigIntOf(77) ELSE None))
    /\ UNCHANGED <<keyVars, wire, back, bk, ub, dc, hp>>

\* note.serialize()
SerializeNote ==
  /\ note.st = "made" /\ note.r.ok /\ wire.st = "none"
  /\ wire' = [st |-> "current", altered |-> "no", bytes |-> Serialize(note.r.v)]
  /\ UNCHANGED <<keyVars, note, back, bk, ub, dc, hp>>

\* note.serializeLegacy(a.privateKey, b.pubkey)
SerializeLegacyNote ==
  \E a \in Wallets, b \in Wallets, iv \in Ivs :
    /\ note.st = "made" /\ note.r.ok /\ note.r.v.type = "TransactNote"
    /\ wire.st = "none"
    /\ iv = Rep(7, 16)
    /\ wire' = [st |-> "legacy", altered |-> "no", a |-> a, b |-> b,
                r |-> TransactNoteSerializeLegacy(note.r.v,
                        ViewingKeyPairs[a].privateKey, ViewingKeyPairs[b].pubkey, iv)]
    /\ UNCHANGED <<keyVars, note, back, bk, ub, dc, hp>>

\* one field is missing from the serialized note
DropField ==
  /\ wire.st = "current" /\ wire.altered = "no" /\ back.st = "none"
  /\ \E field \in DOMAIN wire.bytes :
       wire' = [wire EXCEPT !.altered = field,
                            !.bytes = [k \in DOMAIN wire.bytes \ {field} |->
                                         wire.bytes[k]]]
  /\ UNCHANGED <<keyVars, note, back, bk, ub, dc, hp>>

\* the tokenHash or the hash of the serialized note is replaced
ForgeField ==
  \E field \in {"tokenHash", "hash"} :
    /\ wire.st = "current" /\ wire.altered = "no" /\ back.st = "none"
    /\ field \in DOMAIN wire.bytes
    /\ wire' = [wire EXCEPT !.altered = IF field = "hash" THEN "forgedHash"
                                         ELSE "forgedTokenHash",
                            !.bytes[field] =
                               IF field = "hash" THEN bigintToString(MadeUpHash)
                               ELSE Str(ZeroAddressHex)]
    /\ UNCHANGED <<keyVars, note, back, bk, ub, dc, hp>>

\* Class.deserialize(bytes)
DeserializeNote ==
  /\ wire.st = "current" /\ back.st = "none"
  /\ back' = [st |-> "read", r |-> Deserialize(note.r.v.type, wire.bytes)]
  /\ UNCHANGED <<keyVars, note, wire, bk, ub, dc, hp>>

\* TransactNote.deserializeLegacy(bytes, reader.privateKey, a.pubkey)
DeserializeLegacyNote ==
  \E reader \in Wallets :
    /\ wire.st = "legacy" /\ wire.r.ok /\ back.st = "none"
    /\ back' = [st |-> "read", reader |-> reader,
                r |-> TransactNoteDeserializeLegacy(wire.r.v,
                        ViewingKeyPairs[reader].privateKey,
                        ViewingKeyPairs[wire.a].pubkey)]
    /\ UNCHANGED <<keyVars, note, wire, bk, ub, dc, hp>>

NextNotes ==
  \/ NewTransactNote \/ NewUnshieldNote \/ NewShieldNote
  \/ FromCommitmentTransact \/ FromUnshield \/ FromCommitmentShield
  \/ SerializeNote \/ SerializeLegacyNote
  \/ DropField \/ ForgeField
  \/ DeserializeNote \/ DeserializeLegacyNote

SpecNotes == InitNotes /\ [][NextNotes]_vars

\* a note was serialized in the current format and read back unaltered
ReadBackCurrent ==
  /\ back.st = "read" /\ wire.st = "current" /\ wire.altered = "no"

\* a transact note was serialized for b by a and read back by b
ReadBackLegacy ==
  /\ back.st = "read" /\ wire.st = "legacy" /\ back.reader = wire.b

\* C5: deserialize(n.serialize()) is a note whose every field is the field
\* of n, for the three subtypes.
C5_CurrentRoundTrip ==
  ReadBackCurrent => (back.r.ok /\ back.r.v = note.r.v)

\* C6: deserializeLegacy(serializeLegacy(n)) succeeds and is a note whose
\* every field is the field of n.
C6_LegacyRoundTripAllFields ==
  ReadBackLegacy => (back.r.ok /\ back.r.v = note.r.v)

\* 0x-prefixed lowercase hex of the bytes a hex string stands for
canonicalHex(v) == Str(uint8ArrayToHex(hexToUint8ArrayOf(v).v, TRUE))

\* C6 as the code has it: the legacy round trip succeeds for every pair of
\* key pairs and gives back value, notePublicKey, tokenHash, the bytes of
\* random, the receiver's viewing public key, memoText and blockNumber when
\* the note has them, and the note hash of the note; the token comes back as
\* the ERC20 token whose address is the token hash, the receiver's master
\* public key as 0, and the fields the format does not carry as undefined.
C6_LegacyRoundTrip ==
  ReadBackLegacy =>
    /\ back.r.ok
    /\ back.r.v.type = "TransactNote"
    /\ back.r.v.value = note.r.v.value
    /\ back.r.v.notePublicKey = note.r.v.notePublicKey
    /\ back.r.v.tokenHash = note.r.v.tokenHash
    /\ back.r.v.random = canonicalHex(note.r.v.random)
    /\ back.r.v.receiverAddressData.viewingPublicKey
         = note.r.v.receiverAddressData.viewingPublicKey
    /\ note.r.v.memoText # None => back.r.v.memoText = note.r.v.memoText
    /\ note.r.v.blockNumber # None => back.r.v.blockNumber = note.r.v.blockNumber
    /\ Ok(back.r.v.hash)
         = getNoteHash(note.r.v.notePublicKey, note.r.v.tokenData, note.r.v.value)
    /\ back.r.v.tokenData = [tokenType |-> Num(0),
                             tokenAddress |-> note.r.v.tokenHash,
                             tokenSubID |-> Str(<<"0", "x", "0", "0">>)]
    /\ back.r.v.receiverAddressData.masterPublicKey = BigIntOf(0)
    /\ DOMAIN back.r.v.receiverAddressData = {"masterPublicKey", "viewingPublicKey"}
    /\ back.r.v.senderAddressData = None
    /\ \A k \in OptionalNames \ {"memoText", "blockNumber"} : back.r.v[k] = None

\* an ERC721 note with all optional fields went from one wallet to another
\* and came back as an ERC20 note
C6_Witness ==
  /\ ReadBackLegacy /\ wire.a # wire.b
  /\ back.r.ok
  /\ note.r.v.tokenData.tokenType = Num(1)
  /\ note.r.v.memoText # None
  /\ back.r.v.tokenData.tokenType = Num(0)
  /\ back.r.v.random = note.r.v.random
  /\ back.r.v.hash = note.r.v.hash

\* the fields that C7 names
RequiredFields == {"notePublicKey", "random", "value", "token", "hash",
                   "receiverAddressData", "toAddress", "allowOverride",
                   "masterPublicKey"}

\* C7: deserialize of a serialized note that lacks one of the fields
\* serialize writes fails and returns no note.
C7_RejectsIncomplete ==
  (back.st = "read" /\ wire.st = "current" /\ wire.altered \in RequiredFields)
    => ~back.r.ok

\* the notes the public interface has handed out
ProducedNotes ==
  (IF note.st = "made" /\ note.r.ok THEN {note.r.v} ELSE {})
  \cup (IF back.st = "read" /\ back.r.ok THEN {back.r.v} ELSE {})

\* C8: every transact note and every unshield note has
\* hash = getNoteHash(notePublicKey, tokenData, value).
C8_HashIsNoteHash ==
  \A n \in ProducedNotes :
    n.type \in {"TransactNote", "UnshieldNote"} =>
      Ok(n.hash) = getNoteHash(n.notePublicKey, n.tokenData, n.value)

\* C10: every note has tokenHash = computeTokenHash(tokenData), and a
\* serialized note whose tokenHash was replaced is read as the note that
\* the unaltered bytes are read as.
C10_TokenHashRecomputed ==
  /\ \A n \in ProducedNotes : Ok(n.tokenHash) = computeTokenHash(n.tokenData)
  /\ (back.st = "read" /\ wire.st = "current" /\ wire.altered = "forgedTokenHash"
      /\ wire.bytes.tokenHash # Serialize(note.r.v).tokenHash)
       => back.r = Deserialize(note.r.v.type, Serialize(note.r.v))

\* a shield note was read from bytes whose tokenHash had been replaced
C10_Witness ==
  /\ back.st = "read" /\ wire.st = "current" /\ wire.altered = "forgedTokenHash"
  /\ note.r.v.type = "ShieldNote"
  /\ wire.bytes.tokenHash # Serialize(note.r.v).tokenHash
  /\ back.r.ok
  /\ back.r.v.tokenHash # wire.bytes.tokenHash

(***************************************************************************)
(* The note hash of two triples (npk, tokenData, value)                    *)
(***************************************************************************)
\* one key with the prefix, in capitals and without the prefix, and another
HashKeys ==
  <<Str(<<"0", "x">> \o Rep("a", 64)),
    Str(<<"0", "x">> \o Rep("A", 64)),
    Str(Rep("a", 64)),
    Str(<<"0", "x">> \o Rep("b", 64))>>

\* ERC20 tokens that differ in the sub-ID or the writing of the address,
\* another ERC20 token, and NFTs that differ in type or sub-ID
HashTokens ==
  <<[tokenType |-> Num(0), tokenAddress |-> Str(<<"0", "x">> \o Rep("c", 40)),
     tokenSubID |-> Str(<<"0", "x", "0", "0">>)],
    [tokenType |-> Num(0), tokenAddress |-> Str(<<"0", "x">> \o Rep("c", 40)),
     tokenSubID |-> Str(<<"0", "x", "0", "1">>)],
    [tokenType |-> Num(0), tokenAddress |-> Str(Rep("0", 24) \o Rep("c", 40)),
     tokenSubID |-> Str(<<"0", "x", "0", "0">>)],
    [tokenType |-> Num(0), tokenAddress |-> Str(<<"0", "x">> \o Rep("d", 40)),
     tokenSubID |-> Str(<<"0", "x", "0", "0">>)],
    [tokenType |-> Num(1), tokenAddress |-> Str(<<"0", "x">> \o Rep("c", 40)),
     tokenSubID |-> Str(<<"0", "x", "0", "5">>)],
    [tokenType |-> Num(1), tokenAddress |-> Str(<<"0", "x">> \o Rep("c", 40)),
     tokenSubID |-> Str(<<"0", "x", "0", "6">>)]>>

HashValues == <<BigIntOf(0), BigIntOf(1), BigIntOf(256), BigIntOf(1000)>>

HashTriples ==
  {[npk |-> HashKeys[k], tokenData |-> HashTokens[t], value |-> HashValues[v]] :
     k \in 1..Len(HashKeys), t \in 1..Len(HashTokens), v \in 1..Len(HashValues)}

InitNoteHash ==
  /\ hp = Idle
  /\ bk = Idle /\ ub = Idle /\ dc = Idle /\ note = Idle /\ wire = Idle /\ back = Idle
  /\ KeysIdle

\* getNoteHash is called on a triple
HashFirst ==
  \E a \in HashTriples :
    /\ hp.st = "none"
    /\ hp' = [st |-> "one", a |-> a,
              ha |-> getNoteHash(a.npk, a.tokenData, a.value)]
    /\ UNCHANGED <<keyVars, bk, ub, dc, note, wire, back>>

\* and on a second triple
HashSecond ==
  \E b \in HashTriples :
    /\ hp.st = "one"
    /\ hp' = [st |-> "two", a |-> hp.a, ha |-> hp.ha, b |-> b,
              hb |-> getNoteHash(b.npk, b.tokenData, b.value)]
    /\ UNCHANGED <<keyVars, bk, ub, dc, note, wire, back>>

NextNoteHash == HashFirst \/ HashSecond

SpecNoteHash == InitNoteHash /\ [][NextNoteHash]_vars

\* C9: two triples that differ in npk, in tokenData or in value have
\* different note hashes.
C9_InjectiveInEachArgument ==
  (hp.st = "two" /\ hp.a # hp.b) => hp.ha # hp.hb

\* the bytes of the token hash of a token
tokenHashBytes(tokenData) == hexToUint8ArrayOf(computeTokenHash(tokenData).v).v

\* C9 as the code has it: two triples have the same note hash exactly when
\* their npk strings stand for the same bytes, their tokens have the same
\* token hash bytes and their values are equal.
C9_InjectiveInPoseidonInputs ==
  hp.st = "two" =>
    /\ hp.ha.ok /\ hp.hb.ok
    /\ hp.ha = hp.hb <=>
         /\ hexToUint8ArrayOf(hp.a.npk) = hexToUint8ArrayOf(hp.b.npk)
         /\ tokenHashBytes(hp.a.tokenData) = tokenHashBytes(hp.b.tokenData)
         /\ hp.a.value = hp.b.value

\* two triples that differ in the value alone, with different hashes
C9_Witness ==
  /\ hp.st = "two"
  /\ hp.a.npk = hp.b.npk /\ hp.a.tokenData = hp.b.tokenData
  /\ hp.a.value = BigIntOf(0) /\ hp.b.value = BigIntOf(256)
  /\ hp.ha # hp.hb

(***************************************************************************)
(* seed/bip32: derivation paths.  A path is the sequence of its            *)
(* characters; a JavaScript number is written by the decimal digits of its *)
(* value, so that the integers beyond 2^31 keep their value.               *)
(***************************************************************************)
isDigit(c) == \E d \in 1..10 : Digits[d] = c

\* the first position from i on that holds no digit
RECURSIVE skipDigits(_, _)
skipDigits(chars, i) ==
  IF i <= Len(chars) /\ isDigit(chars[i]) THEN skipDigits(chars, i + 1) ELSE i

\* (\/[0-9]+')+$ matched from position i
RECURSIVE matchSegments(_, _)
matchSegments(chars, i) ==
  /\ i <= Len(chars) /\ chars[i] = "/"
  /\ Const(skipDigits(chars, i + 1), LAMBDA j :
       /\ j > i + 1
       /\ j <= Len(chars) /\ chars[j] = "'"
       /\ (j = Len(chars) \/ matchSegments(chars, j + 1)))

\* /^m(\/[0-9]+')+$/g.test(path)
isValidPath(path) == Len(path) >= 1 /\ path[1] = "m" /\ matchSegments(path, 2)

\* string.split(separator) for a separator of one character
RECURSIVE split(_, _)
split(chars, separator) ==
  IF \A i \in 1..Len(chars) : chars[i] # separator THEN <<chars>>
  ELSE Const(CHOOSE i \in 1..Len(chars) :
               chars[i] = separator /\ \A j \in 1..(i - 1) : chars[j] # separator,
             LAMBDA i : <<SubSeq(chars, 1, i - 1)>>
                        \o split(SubSeq(chars, i + 1, Len(chars)), separator))

\* string.replace(pattern, ''): the first occurrence of the character goes
replaceFirst(chars, pattern) ==
  IF \A i \in 1..Len(chars) : chars[i] # pattern THEN chars
  ELSE Const(CHOOSE i \in 1..Len(chars) :
               chars[i] = pattern /\ \A j \in 1..(i - 1) : chars[j] # pattern,
             LAMBDA i : SubSeq(chars, 1, i - 1) \o SubSeq(chars, i + 1, Len(chars)))

\* the digits of an integer without its leading zeros
RECURSIVE stripZeros(_)
stripZeros(digits) ==
  IF Len(digits) > 1 /\ digits[1] = "0" THEN stripZeros(Tail(digits)) ELSE digits

DigitVal(c) == CHOOSE d \in 0..9 : Digits[d + 1] = c

\* a <= b for integers written without leading zeros
RECURSIVE digitsLeq(_, _)
digitsLeq(a, b) ==
  IF Len(a) # Len(b) THEN Len(a) < Len(b)
  ELSE IF a = <<>> THEN TRUE
  ELSE IF a[1] # b[1] THEN DigitVal(a[1]) < DigitVal(b[1])
  ELSE digitsLeq(Tail(a), Tail(b))

\* the integer plus one
RECURSIVE digitsSucc(_)
digitsSucc(digits) ==
  IF digits = <<>> THEN <<"1">>
  ELSE IF digits[Len(digits)] = "9"
  THEN Append(digitsSucc(SubSeq(digits, 1, Len(digits) - 1)), "0")
  ELSE [digits EXCEPT ![Len(digits)] = Digits[DigitVal(@) + 2]]

\* 2^53 = Number.MAX_SAFE_INTEGER + 1, in digits
TwoTo53 == <<"9", "0", "0", "7", "1", "9", "9", "2", "5", "4", "7", "4", "0", "9", "9", "2">>

\* The number (a double) nearest to an integer below 2^54: every integer up
\* to 2^53 is a number; above it the even integers are, and an odd integer
\* lies halfway between two of them and goes to the multiple of 4.
toNumber(digits) ==
  IF digitsLeq(digits, TwoTo53) THEN digits
  ELSE Const(10 * DigitVal(digits[Len(digits) - 1]) + DigitVal(digits[Len(digits)]),
             LAMBDA lastTwo :
       IF lastTwo % 2 = 0 THEN digits
       ELSE IF (lastTwo - 1) % 4 = 0
       THEN [digits EXCEPT ![Len(digits)] = Digits[DigitVal(@)]]
       ELSE digitsSucc(digits))

\* parseInt(el, 10) of a string: the number of its leading digits, NaN when
\* it has none
parseInt(el) ==
  Const(skipDigits(el, 1), LAMBDA j :
    IF j = 1 THEN <<"N", "a", "N">> ELSE toNumber(stripZeros(SubSeq(el, 1, j - 1))))

getPathSegments(path) ==
  IF ~isValidPath(path) THEN Throw("Invalid derivation path")
  ELSE Const(Tail(split(path, "/")), LAMBDA parts :
         Ok([k \in 1..Len(parts) |-> parseInt(replaceFirst(parts[k], "'"))]))

(***************************************************************************)
(* isValidPath and getPathSegments on the strings over the pieces below    *)
(***************************************************************************)
\* a string is built of at most MaxPathTokens pieces
MaxPathTokens == 5

\* the pieces: single characters, a whole segment, and the segment of the
\* integer 2^53 + 1
PathTokens ==
  <<<<"m">>, <<"/">>, <<"'">>, <<"0">>, <<"7">>, <<"-">>,
    <<"/", "4", "4", "'">>,
    <<"/">> \o digitsSucc(TwoTo53) \o <<"'">>>>

Tested(n, path) ==
  [st |-> "path", n |-> n, path |-> path,
   valid |-> isValidPath(path), r |-> getPathSegments(path)]

InitPath ==
  /\ pth = Tested(0, <<>>)
  /\ libs = FALSE /\ heap = <<>> /\ wallets = <<>> /\ ret = Idle /\ written = {}
  /\ dn = Idle /\ pb = Idle
  /\ NotesIdle

\* both functions are called on a string one piece longer
TestPath ==
  \E t \in 1..Len(PathTokens) :
    /\ pth.st = "path" /\ pth.n < MaxPathTokens
    /\ pth' = Tested(pth.n + 1, pth.path \o PathTokens[t])
    /\ UNCHANGED <<noteVars, libs, heap, wallets, ret, written, dn, pb>>

NextPath == TestPath

SpecPath == InitPath /\ [][NextPath]_vars

\* m followed by one or more segments /<digits>', said character by
\* character: what may follow what
WellFormedPath(p) ==
  /\ Len(p) >= 4 /\ p[1] = "m" /\ p[2] = "/" /\ p[Len(p)] = "'"
  /\ \A i \in 2..Len(p) :
       \/ p[i] = "/" /\ i < Len(p) /\ isDigit(p[i + 1])
       \/ isDigit(p[i]) /\ i < Len(p) /\ (isDigit(p[i + 1]) \/ p[i + 1] = "'")
       \/ p[i] = "'" /\ (i = Len(p) \/ p[i + 1] = "/")

\* the position of the k-th slash of p
SlashAt(p, k) ==
  CHOOSE i \in 1..Len(p) :
    p[i] = "/" /\ Cardinality({j \in 1..i : p[j] = "/"}) = k

\* the integers written in the segments of a well-formed path, in order
WrittenIntegers(p) ==
  LET count == Cardinality({j \in 1..Len(p) : p[j] = "/"})
      endOf(k) == IF k = count THEN Len(p) ELSE SlashAt(p, k + 1) - 1
  IN [k \in 1..count |-> stripZeros(SubSeq(p, SlashAt(p, k) + 1, endOf(k) - 1))]

\* C17: isValidPath holds exactly of m followed by one or more segments
\* /<digits>'; getPathSegments throws 'Invalid derivation path' on every
\* other string and returns exactly the integers written in a valid path.
C17_PathSegments ==
  pth.st = "path" =>
    /\ pth.valid <=> WellFormedPath(pth.path)
    /\ ~pth.valid => pth.r = Throw("Invalid derivation path")
    /\ pth.valid => pth.r.ok /\ pth.r.v = WrittenIntegers(pth.path)

\* the same for paths whose integers are at most 2^53
C17_SafeIntegers ==
  pth.st = "path" =>
    /\ pth.valid <=> WellFormedPath(pth.path)
    /\ ~pth.valid => pth.r = Throw("Invalid derivation path")
    /\ pth.valid => /\ pth.r.ok
                    /\ Len(pth.r.v) = Len(WrittenIntegers(pth.path))
                    /\ \A k \in 1..Len(pth.r.v) :
                         digitsLeq(WrittenIntegers(pth.path)[k], TwoTo53)
                           => pth.r.v[k] = WrittenIntegers(pth.path)[k]

(***************************************************************************)
(* seed/bip39, seed/bip32 and wallet-node: key nodes.  A mnemonic is the   *)
(* sequence of its words; a key node is the record of its two byte arrays. *)
(***************************************************************************)
\* createHmac('sha512', key).update(data).digest(): a 64-byte digest that
\* is a function of the key and the data; it carries two sums of the input,
\* which keeps the digests of the inputs of the model apart
sha512HMAC(key, data) ==
  Const(<<Len(key)>> \o key \o data, LAMBDA msg :
    Const(<<WeightedSum(msg, 1, Len(msg)), WeightedSum(Reverse(msg), 1, Len(msg))>>,
          LAMBDA w :
      [i \in 1..64 |->
         ((CASE i % 4 = 1 -> w[1] \div 256
             [] i % 4 = 2 -> w[1] % 256
             [] i % 4 = 3 -> w[2] \div 256
             [] OTHER -> w[2] % 256) + 7 * i) % 256]))

\* encodeBytes('babyjubjub seed')
CURVE_SEED == <<98, 97, 98, 121, 106, 117, 98, 106, 117, 98, 32, 115, 101, 101, 100>>

\* the words of the model
Wordlist == <<"test", "junk", "zoo">>

\* Mnemonic.toSeed: mnemonicToSeedSync throws unless the phrase has 12, 15,
\* 18, 21 or 24 words, and stretches the phrase to a 64-byte seed
toSeed(mnemonic) ==
  IF Len(mnemonic) \notin {12, 15, 18, 21, 24} THEN Throw("Invalid mnemonic")
  ELSE Ok(sha512([i \in 1..Len(mnemonic) |->
                    CHOOSE w \in 1..Len(Wordlist) : Wordlist[w] = mnemonic[i]]))

getMasterKeyFromSeed(seed) ==
  Const(sha512HMAC(CURVE_SEED, seed), LAMBDA I :
    [chainKey |-> SubSeq(I, 1, 32), chainCode |-> SubSeq(I, 33, 64)])

\* 0x80000000 as the four bytes of a uint32
HARDENED_OFFSET == <<128, 0, 0, 0>>

\* the value modulo 2^32 of the digits that follow the value hi * 2^16 + lo,
\* as its four big-endian bytes: each digit is times ten plus the digit,
\* the carry out of the upper half dropped
RECURSIVE ToUint32From(_, _, _)
ToUint32From(digits, hi, lo) ==
  IF digits = <<>> THEN <<hi \div 256, hi % 256, lo \div 256, lo % 256>>
  ELSE ToUint32From(Tail(digits),
                    (10 * hi + (10 * lo + DigitVal(Head(digits))) \div 65536) % 65536,
                    (10 * lo + DigitVal(Head(digits))) % 65536)

\* ToUint32 of a number written by its digits
ToUint32(digits) == ToUint32From(digits, 0, 0)

\* view.setUint32(0, index + offset, false): the sum modulo 2^32, big-endian,
\* added byte by byte with the carry of the lower bytes; the index is a
\* number below 2^53 - 2^31, for which the sum of the two numbers is exact
setUint32(index, offset) ==
  Const(ToUint32(index), LAMBDA a :
    [i \in 1..4 |->
       (a[i] + offset[i]
        + (uint8ArrayToBigInt(SubSeq(a, i + 1, 4))
           + uint8ArrayToBigInt(SubSeq(offset, i + 1, 4))) \div Pow(256, 4 - i)) % 256])

\* the index is a number of the path, written by its digits
childKeyDerivationHardened(node, index, offset) ==
  Const(sha512HMAC(node.chainCode,
                   <<0>> \o node.chainKey \o setUint32(index, offset)),
        LAMBDA I : [chainKey |-> SubSeq(I, 1, 32), chainCode |-> SubSeq(I, 33, 64)])

\* WalletNode.fromMnemonic
fromMnemonic(mnemonic) ==
  Const(toSeed(mnemonic), LAMBDA seed :
    IF ~seed.ok THEN seed ELSE Ok(getMasterKeyFromSeed(seed.v)))

\* segments.reduce from right to left
RECURSIVE reduceRightSegments(_, _)
reduceRightSegments(segments, parentKeys) ==
  IF segments = <<>> THEN parentKeys
  ELSE reduceRightSegments(SubSeq(segments, 1, Len(segments) - 1),
         childKeyDerivationHardened(parentKeys, segments[Len(segments)], HARDENED_OFFSET))

\* segments.reduce((parentKeys, segment) => childKeyDerivationHardened(...))
RECURSIVE reduceSegments(_, _)
reduceSegments(segments, parentKeys) ==
  IF segments = <<>> THEN parentKeys
  ELSE reduceSegments(Tail(segments),
         childKeyDerivationHardened(parentKeys, Head(segments), HARDENED_OFFSET))

\* WalletNode.derive
derive(this, path) ==
  Const(getPathSegments(path), LAMBDA segments :
    IF ~segments.ok THEN segments ELSE Ok(reduceSegments(segments.v, this)))

(***************************************************************************)
(* derive/index.ts                                                         *)
(***************************************************************************)
DERIVATION_PATH_PREFIXES ==
  [SPENDING |-> <<"m", "/", "4", "4", "'", "/", "1", "9", "8", "4", "'",
                  "/", "0", "'", "/", "0", "'", "/">>,
   VIEWING |-> <<"m", "/", "4", "2", "0", "'", "/", "1", "9", "8", "4", "'",
                 "/", "0", "'", "/", "0", "'", "/">>]

\* `${index}` of an integer
numberToString(index) ==
  IF index < 0 THEN <<"-">> \o Decimal(0 - index) ELSE Decimal(index)

\* derivePathsForIndex that puts both paths under the spending purpose
derivePathsForIndexOnePurpose(index) ==
  [spending |-> DERIVATION_PATH_PREFIXES.SPENDING \o numberToString(index) \o <<"'">>,
   viewing |-> DERIVATION_PATH_PREFIXES.SPENDING \o numberToString(index) \o <<"'">>]

derivePathsForIndex(index) ==
  [spending |-> DERIVATION_PATH_PREFIXES.SPENDING \o numberToString(index) \o <<"'">>,
   viewing |-> DERIVATION_PATH_PREFIXES.VIEWING \o numberToString(index) \o <<"'">>]

deriveNodes(mnemonic, index) ==
  Const(derivePathsForIndex(index), LAMBDA paths :
    Try(<<fromMnemonic(mnemonic), fromMnemonic(mnemonic)>>, LAMBDA masters :
      Try(<<derive(masters[1], paths.spending), derive(masters[2], paths.viewing)>>,
          LAMBDA nodes : Ok([spending |-> nodes[1], viewing |-> nodes[2]]))))

(***************************************************************************)
(* Derivation of key nodes                                                 *)
(***************************************************************************)
\* account indexes are 0..MaxIndex
MaxIndex == 3

\* a node is derived further at most MaxDepth times
MaxDepth == 2

TEST_MNEMONIC == Rep("test", 11) \o <<"junk">>

Mnemonics == <<TEST_MNEMONIC, Rep("zoo", 12)>>

AccountIndexes == 0..MaxIndex

\* the path m/s1'/s2'/... of a sequence of integers
RECURSIVE PathOf(_)
PathOf(segments) ==
  IF segments = <<>> THEN <<"m">>
  ELSE PathOf(SubSeq(segments, 1, Len(segments) - 1))
       \o <<"/">> \o Decimal(segments[Len(segments)]) \o <<"'">>

\* paths of one and two segments, and a path with a segment that is not
\* hardened
DerivePaths ==
  {PathOf(<<a>>) : a \in {0, 1, 44}}
  \cup {PathOf(<<a, b>>) : a \in {0, 1, 44}, b \in {0, 1, 44}}
  \cup {<<"m", "/", "0">>}

InitDerive ==
  /\ dn = Idle
  /\ libs = FALSE /\ heap = <<>> /\ wallets = <<>> /\ ret = Idle /\ written = {}
  /\ pth = Idle /\ pb = Idle
  /\ NotesIdle

Derived(index, mnemonic) ==
  [index |-> index, paths |-> derivePathsForIndex(index),
   nodes |-> deriveNodes(mnemonic, index)]

\* deriveNodes(mnemonic, index)
DeriveNodes ==
  \E k \in 1..Len(Mnemonics), index \in AccountIndexes :
    /\ dn.st = "none"
    /\ dn' = [st |-> "one", mnemonic |-> Mnemonics[k],
              a |-> Derived(index, Mnemonics[k])]
    /\ UNCHANGED <<noteVars, libs, heap, wallets, ret, written, pth, pb>>

\* deriveNodes of the same mnemonic, for any index again
DeriveNodesAgain ==
  \E index \in AccountIndexes :
    /\ dn.st = "one"
    /\ dn' = [st |-> "two", mnemonic |-> dn.mnemonic, a |-> dn.a,
              b |-> Derived(index, dn.mnemonic)]
    /\ UNCHANGED <<noteVars, libs, heap, wallets, ret, written, pth, pb>>

\* WalletNode.fromMnemonic(mnemonic)
FromMnemonic ==
  \E k \in 1..Len(Mnemonics) :
    /\ dn.st = "none"
    /\ dn' = [st |-> "node", depth |-> 0, node |-> fromMnemonic(Mnemonics[k]).v]
    /\ UNCHANGED <<noteVars, libs, heap, wallets, ret, written, pth, pb>>

\* node.derive(path); the node derived is the receiver of the next call
Derive ==
  \E path \in DerivePaths :
    /\ dn.st = "node" /\ dn.depth < MaxDepth
    /\ Const(derive(dn.node, path), LAMBDA r :
         dn' = [st |-> "node", depth |-> dn.depth + 1,
                receiver |-> dn.node, path |-> path, r |-> r,
                node |-> IF r.ok THEN r.v ELSE dn.node])
    /\ UNCHANGED <<noteVars, libs, heap, wallets, ret, written, pth, pb>>

NextDerive == DeriveNodes \/ DeriveNodesAgain \/ FromMnemonic \/ Derive

SpecDerive == InitDerive /\ [][NextDerive]_vars

\* C16: for every account index the two paths are the spending path
\* m/44'/1984'/0'/0'/{index}' and the viewing path m/420'/1984'/0'/0'/{index}',
\* both valid and different, and the spending chain key never equals the
\* viewing chain key, for the same index or for two indexes.
C16_SpendingAndViewingApart ==
  dn.st \in {"one", "two"} =>
    \A x \in (IF dn.st = "two" THEN {dn.a, dn.b} ELSE {dn.a}) :
      /\ x.paths.spending = PathOf(<<44, 1984, 0, 0, x.index>>)
      /\ x.paths.viewing = PathOf(<<420, 1984, 0, 0, x.index>>)
      /\ isValidPath(x.paths.spending) /\ isValidPath(x.paths.viewing)
      /\ x.paths.spending # x.paths.viewing
      /\ x.nodes.ok
      /\ x.nodes.v.spending =
           derive(fromMnemonic(dn.mnemonic).v, x.paths.spending).v
      /\ x.nodes.v.viewing =
           derive(fromMnemonic(dn.mnemonic).v, x.paths.viewing).v
      /\ \A y \in (IF dn.st = "two" THEN {dn.a, dn.b} ELSE {dn.a}) :
           x.nodes.v.spending.chainKey # y.nodes.v.viewing.chainKey

C16_Witness ==
  /\ dn.st = "two" /\ dn.a.index # dn.b.index
  /\ dn.a.nodes.ok /\ dn.b.nodes.ok
  /\ dn.a.nodes.v.spending.chainKey # dn.b.nodes.v.viewing.chainKey

\* C18: derive(path) is the fold of childKeyDerivationHardened from left to
\* right over the segments of the path, starting from the receiver: a path
\* of one segment is one step from the receiver, and a longer path gives the
\* node that deriving its front part and then its rest gives.
C18_DeriveIsLeftFold ==
  (dn.st = "node" /\ dn.depth > 0 /\ dn.r.ok) =>
    Const(getPathSegments(dn.path).v, LAMBDA segments :
      /\ Len(segments) = 1 =>
           dn.node = childKeyDerivationHardened(dn.receiver, segments[1],
                                                HARDENED_OFFSET)
      /\ \A k \in 1..(Len(segments) - 1) :
           dn.node =
             derive(derive(dn.receiver,
                           PathOf([i \in 1..k |-> parseDecimal(segments[i])])).v,
                    PathOf([i \in 1..(Len(segments) - k) |->
                              parseDecimal(segments[k + i])])).v)

C18_Witness ==
  /\ dn.st = "node" /\ dn.depth = 2 /\ dn.r.ok
  /\ Len(getPathSegments(dn.path).v) = 2
  /\ getPathSegments(dn.path).v[1] # getPathSegments(dn.path).v[2]
  /\ dn.node # dn.receiver

(***************************************************************************)
(* keys.ts and wallet-node: the keys of a node.  Byte arrays are objects:  *)
(* the heap is the sequence of their contents and an object holds the      *)
(* addresses of its arrays, so that two names of one array show the same   *)
(* bytes.  libs tells whether initializeCryptographyLibs has run.          *)
(***************************************************************************)
\* the content of an array: its bytes, or the digest that stands for them
U8(bytes) == [u8 |-> bytes]

Digest(d) == [digest |-> d]

\* eddsaBuild is undefined until initializeEddsa has run, and prv2pub of
\* undefined is a TypeError; the public key is a function of the private key
getPublicSpendingKey(privateKey) ==
  IF Len(privateKey) # 32 THEN Throw("Invalid private key length")
  ELSE IF ~libs THEN Throw("TypeError")
  ELSE Ok(<<[prv2pub |-> <<privateKey, "x">>], [prv2pub |-> <<privateKey, "y">>]>>)

\* privateKey is the chain key array itself, pubkey is new
getSpendingKeyPair(h, this) ==
  Const(getPublicSpendingKey(h[this.chainKey].u8), LAMBDA pubkey :
    IF ~pubkey.ok THEN pubkey
    ELSE Ok([privateKey |-> this.chainKey, pubkey |-> pubkey.v]))

getViewingKeyPair(h, this) ==
  [privateKey |-> this.chainKey, pubkey |-> getPublicViewingKey(h[this.chainKey].u8)]

\* WalletNode.getNullifyingKey
WalletNodeGetNullifyingKey(h, this) ==
  poseidon(<<h[getViewingKeyPair(h, this).privateKey].u8>>)

\* WalletNode.getMasterPublicKey
WalletNodeGetMasterPublicKey(spendingPublicKey, nullifyingKey) ==
  poseidon(spendingPublicKey \o <<nullifyingKey>>)

(***************************************************************************)
(* wallet-node/railgun.ts                                                  *)
(***************************************************************************)
\* The body of the async method runs to its end within the call, since it
\* awaits nothing; a throw inside it rejects the promise it returns.  The
\* result is the heap, the keystore and the promise after the call.
initializeKeyPairs(h, this) ==
  Const(getSpendingKeyPair(h, this.nodes.spending), LAMBDA spendingKeyPair :
    IF ~spendingKeyPair.ok
    THEN [heap |-> h, keystore |-> this.keystore, promise |-> spendingKeyPair]
    ELSE Const(WalletNodeGetNullifyingKey(h, this.nodes.viewing), LAMBDA nullifyingKey :
      Const(getViewingKeyPair(h, this.nodes.viewing), LAMBDA viewingKeyPair :
        [heap |-> h \o <<Digest(spendingKeyPair.v.pubkey[1]),
                         Digest(spendingKeyPair.v.pubkey[2]),
                         Digest(nullifyingKey), U8(viewingKeyPair.pubkey),
                         Digest(WalletNodeGetMasterPublicKey(spendingKeyPair.v.pubkey,
                                                             nullifyingKey)),
                         U8(Rep(0, 32))>>,
         keystore |->
           [spendingKeyPair |-> [privateKey |-> spendingKeyPair.v.privateKey,
                                 pubkey |-> <<Len(h) + 1, Len(h) + 2>>],
            viewingKeyPair |-> [privateKey |-> viewingKeyPair.privateKey,
                                pubkey |-> Len(h) + 4],
            nullifyingKey |-> Len(h) + 3,
            masterPublicKey |-> Len(h) + 5,
            zer0xPrivateKey |-> Len(h) + 6,
            shieldPrivateKey |-> {}],
         promise |-> Ok(None)])))

\* new RailgunWallet(mnemonic, index): deriveNodes may throw; the promise of
\* initializeKeyPairs is dropped
RailgunWallet(h, mnemonic, index) ==
  Const(deriveNodes(mnemonic, index), LAMBDA nodes :
    IF ~nodes.ok THEN nodes
    ELSE Const([nodes |-> [spending |-> [chainKey |-> Len(h) + 1,
                                         chainCode |-> Len(h) + 2],
                           viewing |-> [chainKey |-> Len(h) + 3,
                                        chainCode |-> Len(h) + 4]],
                keystore |-> None],
               LAMBDA this :
      Const(initializeKeyPairs(h \o <<U8(nodes.v.spending.chainKey),
                                      U8(nodes.v.spending.chainCode),
                                      U8(nodes.v.viewing.chainKey),
                                      U8(nodes.v.viewing.chainCode)>>, this),
            LAMBDA init :
        Ok([heap |-> init.heap,
            this |-> [nodes |-> this.nodes, keystore |-> init.keystore]]))))

\* getSpendingPrivateKey without the check of the keystore
getSpendingPrivateKeyUnchecked(h, this) ==
  Const(getSpendingKeyPair(h, this.nodes.spending), LAMBDA pair :
    IF ~pair.ok THEN pair ELSE Ok(pair.v.privateKey))

getSpendingPrivateKey(h, this) ==
  IF this.keystore = None THEN Throw("Keystore not initialized")
  ELSE Const(getSpendingKeyPair(h, this.nodes.spending), LAMBDA pair :
         IF ~pair.ok THEN pair ELSE Ok(pair.v.privateKey))

getSpendingPublicKey(this) ==
  IF this.keystore = None THEN Throw("Keystore not initialized")
  ELSE Ok(this.keystore.spendingKeyPair.pubkey)

getMasterPublicKey(this) ==
  IF this.keystore = None THEN Throw("Keystore not initialized")
  ELSE Ok(this.keystore.masterPublicKey)

getNullifyingKey(this) ==
  IF this.keystore = None THEN Throw("Keystore not initialized")
  ELSE Ok(this.keystore.nullifyingKey)

getViewingPublicKey(this) ==
  IF this.keystore = None THEN Throw("Keystore not initialized")
  ELSE Ok(this.keystore.viewingKeyPair.pubkey)

getViewingPrivateKey(this) ==
  IF this.keystore = None THEN Throw("Keystore not initialized")
  ELSE Ok(this.keystore.viewingKeyPair.privateKey)

\* the six read accessors by name
Accessors ==
  {"getSpendingPrivateKey", "getSpendingPublicKey", "getMasterPublicKey",
   "getNullifyingKey", "getViewingPublicKey", "getViewingPrivateKey"}

callAccessor(name, h, this) ==
  CASE name = "getSpendingPrivateKey" -> getSpendingPrivateKey(h, this)
    [] name = "getSpendingPublicKey" -> getSpendingPublicKey(this)
    [] name = "getMasterPublicKey" -> getMasterPublicKey(this)
    [] name = "getNullifyingKey" -> getNullifyingKey(this)
    [] name = "getViewingPublicKey" -> getViewingPublicKey(this)
    [] name = "getViewingPrivateKey" -> getViewingPrivateKey(this)

\* The signature is the work of rawSignature on the zero key: it throws, or
\* gives r and s, taken here as the arrays bigIntToArray makes of them
\* (one byte per two decimal digits: 39 bytes for a value of 256 bits).
\* The result is the heap, the keystore and the settled promise.
setShieldPrivateKey(h, this, shieldSignature) ==
  IF this.keystore = None
  THEN [heap |-> h, keystore |-> this.keystore,
        promise |-> Throw("Keystore not initialized")]
  ELSE IF ~shieldSignature.ok
  THEN [heap |-> h, keystore |-> this.keystore, promise |-> shieldSignature]
  ELSE Const(setBytes(Rep(0, 65), shieldSignature.v.rBytes, 0), LAMBDA withR :
    Const(IF withR.ok THEN setBytes(withR.v, shieldSignature.v.sBytes, 32) ELSE withR,
          LAMBDA withS :
      Const(IF withS.ok
            THEN setBytes(withS.v, <<27 + shieldSignature.v.recovery>>, 64)
            ELSE withS,
            LAMBDA privKeyBytes :
        IF ~privKeyBytes.ok
        THEN [heap |-> h, keystore |-> this.keystore, promise |-> privKeyBytes]
        ELSE [heap |-> Append(h, U8(keccak256(privKeyBytes.v))),
              keystore |-> [this.keystore EXCEPT !.shieldPrivateKey = {Len(h) + 1}],
              promise |-> Ok(Len(h) + 1)])))

\* getSharedSymmetricKey is async: sharedKey is a promise, which is no
\* falsy value and no key, and AES.decryptGCM throws on it
decryptRandom(this, encryptedBundle, shieldKey) ==
  Const(getViewingPublicKey(this), LAMBDA viewingPublicKey :
    IF ~viewingPublicKey.ok THEN viewingPublicKey ELSE Throw("TypeError"))

(***************************************************************************)
(* Wallets, their accessors and their callers                              *)
(***************************************************************************)
\* at most MaxWallets wallets are constructed
MaxWallets == 2

\* initializeKeyPairs is called again at most MaxInits times on a wallet
MaxInits == 1

\* a caller writes into at most MaxWrites of the arrays it was handed
MaxWrites == 1

\* a run makes at most MaxCalls calls
MaxCalls == 4

\* the mnemonics of the model, and a phrase of one word
WalletMnemonics == Mnemonics \o <<<<"test">>>>

WalletIndexes == {0, 1}

\* what rawSignature does on the zero key: it throws, or it signs with r and
\* s of 256 bits, or with short r and s
ShieldSignatures ==
  <<Throw("invalid private key"),
    Ok([rBytes |-> Rep(7, 39), sBytes |-> Rep(9, 39), recovery |-> 0]),
    Ok([rBytes |-> <<5>>, sBytes |-> <<9>>, recovery |-> 1])>>

\* the keys a wallet with a keystore hands out, by accessor
Exposed(h, this) ==
  [name \in Accessors |->
     IF name = "getSpendingPublicKey"
     THEN <<h[getSpendingPublicKey(this).v[1]], h[getSpendingPublicKey(this).v[2]]>>
     ELSE h[callAccessor(name, h, this).v]]

\* the number of calls made so far
Calls == IF ret.st = "none" THEN 0 ELSE ret.n

\* the last call, its number, whether the libraries were initialized when it was made,
\* and what it returned or threw
Returned(op, w, r) ==
  [st |-> "returned", op |-> op, w |-> w, libs |-> libs, r |-> r, n |-> Calls + 1]

InitWallet ==
  /\ libs = FALSE /\ heap = <<>> /\ wallets = <<>> /\ ret = Idle /\ written = {}
  /\ pth = Idle /\ dn = Idle /\ pb = Idle
  /\ NotesIdle

InitializeCryptographyLibs ==
  /\ ~libs
  /\ libs' = TRUE
  /\ UNCHANGED <<noteVars, heap, wallets, ret, written, pth, dn, pb>>

\* the wallet that the constructor call r hands to the caller, if any; the
\* keys it first derives are kept with it
Constructed(mnemonic, index, r) ==
  /\ Len(wallets) < MaxWallets /\ Calls < MaxCalls
  /\ IF ~r.ok
     THEN ret' = Returned("new", 0, r) /\ UNCHANGED <<heap, wallets>>
     ELSE /\ heap' = r.v.heap
          /\ wallets' = Append(wallets,
               [mnemonic |-> mnemonic, index |-> index, this |-> r.v.this,
                inits |-> 0,
                first |-> IF r.v.this.keystore = None THEN None
                          ELSE Exposed(r.v.heap, r.v.this)])
          /\ ret' = Returned("new", Len(wallets) + 1, Ok(None))
  /\ UNCHANGED <<noteVars, libs, written, pth, dn, pb>>

\* a constructor that derives at the number of wallets made so far
NewRailgunWalletNumbered ==
  \E k \in 1..Len(WalletMnemonics), index \in WalletIndexes :
    Constructed(WalletMnemonics[k], index,
                RailgunWallet(heap, WalletMnemonics[k], Len(wallets)))

\* new RailgunWallet(mnemonic, index)
NewRailgunWallet ==
  \E k \in 1..Len(WalletMnemonics), index \in WalletIndexes :
    Constructed(WalletMnemonics[k], index,
                RailgunWallet(heap, WalletMnemonics[k], index))

\* wallet.get...(): one of the six accessors
GetKey ==
  \E w \in DOMAIN wallets, name \in Accessors :
    /\ Calls < MaxCalls
    /\ ret' = Returned(name, w, callAccessor(name, heap, wallets[w].this))
    /\ UNCHANGED <<noteVars, libs, heap, wallets, written, pth, dn, pb>>

\* await wallet.setShieldPrivateKey(); the key is set once in a run
SetShieldPrivateKey ==
  \E w \in DOMAIN wallets, s \in 1..Len(ShieldSignatures) :
    /\ Calls < MaxCalls
    /\ IF wallets[w].this.keystore = None THEN TRUE
       ELSE wallets[w].this.keystore.shieldPrivateKey = {}
    /\ Const(setShieldPrivateKey(heap, wallets[w].this, ShieldSignatures[s]),
             LAMBDA result :
         /\ heap' = result.heap
         /\ wallets' = [wallets EXCEPT ![w].this.keystore = result.keystore]
         /\ ret' = Returned("setShieldPrivateKey", w, result.promise))
    /\ UNCHANGED <<noteVars, libs, written, pth, dn, pb>>

\* await wallet.initializeKeyPairs(), called again by a caller
InitializeKeyPairs ==
  \E w \in DOMAIN wallets :
    /\ wallets[w].inits < MaxInits /\ Calls < MaxCalls
    /\ Const(initializeKeyPairs(heap, wallets[w].this), LAMBDA result :
         /\ heap' = result.heap
         /\ wallets' =
              [wallets EXCEPT
                 ![w].this.keystore = result.keystore,
                 ![w].inits = @ + 1,
                 ![w].first =
                   IF @ = None /\ result.keystore # None
                   THEN Exposed(result.heap,
                                [wallets[w].this EXCEPT !.keystore = result.keystore])
                   ELSE @]
         /\ ret' = Returned("initializeKeyPairs", w, result.promise))
    /\ UNCHANGED <<noteVars, libs, written, pth, dn, pb>>

\* shield keys: a point of the curve, for which the shared key is derived,
\* and 32 bytes that are no point, for which the derivation yields undefined
ShieldKeys == {PointToRawBytes(7), Rep(255, 32)}

\* wallet.decryptRandom(encryptedBundle, shieldKey); the shield key of the
\* call is kept with what the call returned
DecryptRandom ==
  \E w \in DOMAIN wallets, shieldKey \in ShieldKeys :
    /\ Calls < MaxCalls
    /\ ret' = Returned("decryptRandom", w,
                       decryptRandom(wallets[w].this,
                                     <<Rep(1, 32), Rep(2, 16), <<>>>>, shieldKey))
                @@ [shieldKey |-> shieldKey]
    /\ UNCHANGED <<noteVars, libs, heap, wallets, written, pth, dn, pb>>

\* getPublicSpendingKey(privateKey), called on its own
GetPublicSpendingKey ==
  \E privateKey \in {Key32(1), Rep(1, 31)} :
    /\ Calls < MaxCalls
    /\ ret' = Returned("getPublicSpendingKey", 0, getPublicSpendingKey(privateKey))
    /\ UNCHANGED <<noteVars, libs, heap, wallets, written, pth, dn, pb>>

\* the arrays that the last call handed to the caller
ReturnedArrays ==
  IF ret.st = "none" THEN {}
  ELSE IF ret.op \notin Accessors \/ ~ret.r.ok THEN {}
  ELSE IF ret.op = "getSpendingPublicKey" THEN {ret.r.v[1], ret.r.v[2]}
  ELSE {ret.r.v}

\* the caller clears an array it was handed: array.fill(0)
CallerWrites ==
  \E a \in ReturnedArrays :
    /\ Cardinality(written) < MaxWrites /\ a \notin written
    /\ heap' = [heap EXCEPT ![a] = U8(Rep(0, 32))]
    /\ written' = written \cup {a}
    /\ UNCHANGED <<noteVars, libs, wallets, ret, pth, dn, pb>>

NextWallet ==
  \/ InitializeCryptographyLibs \/ NewRailgunWallet \/ GetKey
  \/ SetShieldPrivateKey \/ InitializeKeyPairs \/ DecryptRandom
  \/ GetPublicSpendingKey \/ CallerWrites

SpecWallet == InitWallet /\ [][NextWallet]_vars

\* the wallets whose keystore has been computed
WithKeystore == {w \in DOMAIN wallets : wallets[w].this.keystore # None}

\* the wallets whose keys have been derived at some time
Derivedwallets == {w \in DOMAIN wallets : wallets[w].first # None}

StoredKey(op, this) ==
  CASE op = "getSpendingPrivateKey" -> this.keystore.spendingKeyPair.privateKey
    [] op = "getSpendingPublicKey" -> this.keystore.spendingKeyPair.pubkey
    [] op = "getMasterPublicKey" -> this.keystore.masterPublicKey
    [] op = "getNullifyingKey" -> this.keystore.nullifyingKey
    [] op = "getViewingPublicKey" -> this.keystore.viewingKeyPair.pubkey
    [] op = "getViewingPrivateKey" -> this.keystore.viewingKeyPair.privateKey
    [] op = "setShieldPrivateKey" ->
         CHOOSE a \in this.keystore.shieldPrivateKey \cup {0} :
           this.keystore.shieldPrivateKey # {} => a # 0

C13_ConstructionAtomic ==
  (ret.st = "returned" /\ ret.op = "new" /\ ret.r.ok)
    => wallets[ret.w].this.keystore # None

\* C14: the keys that the accessors of a wallet return are the keys first
\* derived, whatever the wallet and its callers have done since.
C14_KeysReadOnly ==
  \A w \in WithKeystore : Exposed(heap, wallets[w].this) = wallets[w].first

\* the same of the runs in which no caller has written into a returned array
C14_WithoutCallerWrites ==
  written = {} => C14_KeysReadOnly

\* C15: before initializeCryptographyLibs, getPublicSpendingKey on a key of
\* 32 bytes fails with the NotInitialized kind, and the constructor fails.
C15_NotInitializedKind ==
  (ret.st = "returned" /\ ~ret.libs) =>
    /\ ret.op = "getPublicSpendingKey" =>
         ret.r \in {Throw("NotInitialized"), Throw("Invalid private key length")}
    /\ ret.op = "new" => ~ret.r.ok

(***************************************************************************)
(* The probe operations, each called once on inputs of any shape          *)
(***************************************************************************)
\* private keys of 32 bytes, two of them with a hash that reduces to zero,
\* and keys of other lengths
ProbeKeys ==
  {Key32(b) : b \in {1, 2, 3, 127, 128, 200}} \cup {<<>>, Rep(1, 31), Rep(1, 33)}

\* points of the curve and byte arrays that are no points
ProbePoints ==
  {PointToRawBytes(1), PointToRawBytes(7)} \cup {ForeignKeys[i] : i \in 1..Len(ForeignKeys)}

Probed(op, in, r) == [st |-> "returned", op |-> op, in |-> in, r |-> r]

InitProbe ==
  /\ pb = Idle
  /\ libs = FALSE /\ heap = <<>> /\ wallets = <<>> /\ ret = Idle /\ written = {}
  /\ pth = Idle /\ dn = Idle
  /\ NotesIdle

\* await getPrivateScalarFromPrivateKey(privateKey)
ProbeScalar ==
  \E privateKey \in ProbeKeys :
    /\ pb = Idle
    /\ pb' = Probed("getPrivateScalarFromPrivateKey", <<privateKey>>,
                    getPrivateScalarFromPrivateKey(privateKey))
    /\ UNCHANGED <<noteVars, libs, heap, wallets, ret, written, pth, dn>>

\* await getSharedSymmetricKey(privateKeyPairA, blindedPublicKeyPairB)
ProbeSharedKey ==
  \E privateKeyPairA \in ProbeKeys, blindedPublicKeyPairB \in ProbePoints :
    /\ pb = Idle
    /\ pb' = Probed("getSharedSymmetricKey", <<privateKeyPairA, blindedPublicKeyPairB>>,
                    getSharedSymmetricKey(privateKeyPairA, blindedPublicKeyPairB))
    /\ UNCHANGED <<noteVars, libs, heap, wallets, ret, written, pth, dn>>

\* unblindNoteKey(blindedNoteKey, sharedRandom, senderRandom)
ProbeUnblind ==
  \E blindedNoteKey \in ProbePoints, sharedRandom \in Randoms, senderRandom \in Randoms :
    /\ pb = Idle
    /\ pb' = Probed("unblindNoteKey", <<blindedNoteKey, sharedRandom, senderRandom>>,
                    unblindNoteKey(blindedNoteKey, sharedRandom, senderRandom))
    /\ UNCHANGED <<noteVars, libs, heap, wallets, ret, written, pth, dn>>

\* getBlindingScalar(sharedRandom, senderRandom)
ProbeBlindingScalar ==
  \E sharedRandom \in Randoms, senderRandom \in Randoms :
    /\ pb = Idle
    /\ pb' = Probed("getBlindingScalar", <<sharedRandom, senderRandom>>,
                    Ok(getBlindingScalar(sharedRandom, senderRandom)))
    /\ UNCHANGED <<noteVars, libs, heap, wallets, ret, written, pth, dn>>

\* first and last bytes that have the clamped bits set and clear
ClampBytes == {0, 7, 64, 129, 200, 255}

\* arrays of 32 bytes between a first and a last byte, and arrays of other
\* lengths
AdjustInputs ==
  {[i \in 1..32 |-> IF i = 1 THEN f ELSE IF i = 32 THEN l ELSE (7 * i) % 256] :
     f \in ClampBytes, l \in ClampBytes}
  \cup {<<>>, Rep(255, 31), Rep(255, 33)}

\* adjustBytes25519(bytes, endian)
ProbeAdjust ==
  \E bytes \in AdjustInputs, endian \in {"le", "be"} :
    /\ pb = Idle
    /\ pb' = Probed("adjustBytes25519", <<bytes, endian>>, adjustBytes25519(bytes, endian))
    /\ UNCHANGED <<noteVars, libs, heap, wallets, ret, written, pth, dn>>

\* output buffers of 0..MaxRandomLen + 1 bytes
OutputBuffers == {Rep(9, n) : n \in 0..(MaxRandomLen + 1)}

\* xorBytesInPlace(a, b, outputBuffer, offset); what is returned is the
\* output buffer after the call
ProbeXor ==
  \E a \in Randoms, b \in Randoms, outputBuffer \in OutputBuffers, offset \in 0..MaxRandomLen :
    /\ pb = Idle
    /\ pb' = Probed("xorBytesInPlace", <<a, b, outputBuffer, offset>>,
                    Ok(xorBytesInPlace(a, b, outputBuffer, offset)))
    /\ UNCHANGED <<noteVars, libs, heap, wallets, ret, written, pth, dn>>

\* token addresses of 20 bytes with and without the prefix, of 32 bytes,
\* of 19 bytes and of 33 bytes
ProbeAddresses ==
  {Str(<<"0", "x">> \o Rep("c", 40)), Str(Rep("c", 40)),
   Str(<<"0", "x">> \o Rep("0", 24) \o Rep("c", 40)),
   Str(<<"0", "x">> \o Rep("c", 38)), Str(<<"0", "x">> \o Rep("c", 66))}

\* sub-IDs: none, the writings of no sub-ID, zero in one and in 32 bytes,
\* five in one and in 32 bytes, and six
ProbeSubIDs ==
  {None, Str(<<>>), Str(<<"0", "x">>), Str(<<"0", "x", "0">>),
   Str(<<"0", "x", "0", "0">>), Str(<<"0", "x">> \o Rep("0", 64)),
   Str(<<"0", "x", "0", "5">>), Str(<<"0", "x">> \o Rep("0", 63) \o <<"5">>),
   Str(<<"0", "x", "0", "6">>)}

ProbeTokens ==
  {[tokenType |-> Num(t), tokenAddress |-> a, tokenSubID |-> i] :
     t \in 0..3, a \in ProbeAddresses, i \in ProbeSubIDs}

\* assertValidNoteToken(tokenData, value)
ProbeAssertValid ==
  \E tokenData \in ProbeTokens, value \in {BigIntOf(0), BigIntOf(1), BigIntOf(2)} :
    /\ pb = Idle
    /\ pb' = Probed("assertValidNoteToken", <<tokenData, value>>,
                    assertValidNoteToken(tokenData, value))
    /\ UNCHANGED <<noteVars, libs, heap, wallets, ret, written, pth, dn>>

\* computeTokenHash(tokenData)
ProbeTokenHash ==
  \E tokenData \in ProbeTokens :
    /\ pb = Idle
    /\ pb' = Probed("computeTokenHash", <<tokenData>>, computeTokenHash(tokenData))
    /\ UNCHANGED <<noteVars, libs, heap, wallets, ret, written, pth, dn>>

\* plaintexts: one whole block of each token-type byte, a block cut to n
\* bytes, a block with bytes behind it, a block with a further block, and
\* no block
PlainBlocks ==
  {<<CommitmentBlock(t)>> : t \in {0, 1, 2, 3, 255}}
  \cup {<<SubSeq(CommitmentBlock(1), 1, n)>> : n \in {0, 100, 101, 102, 132}}
  \cup {<<CommitmentBlock(2) \o <<9, 9>>>>, <<CommitmentBlock(1), <<1, 2, 3>>>>, <<>>}

\* the blinded keys the plaintexts are sealed for
ProbeBlindedKeys == {PointToRawBytes(5), PointToRawBytes(7)}

\* await decryptCommitment(ciphertext, blindedViewingKey, viewingPrivateKey)
\* of a plaintext sealed under the key the caller shares with the payer
ProbeDecrypt ==
  \E blocks \in PlainBlocks, blindedViewingKey \in ProbeBlindedKeys,
     w \in Wallets, iv \in Ivs :
    /\ pb = Idle
    /\ getSharedSymmetricKey(PrivKeys[w], blindedViewingKey) # None
    /\ pb' = Probed("decryptCommitment", <<blocks, blindedViewingKey, w, iv>>,
                    decryptCommitment(
                      encryptGCM(blocks,
                                 getSharedSymmetricKey(PrivKeys[w], blindedViewingKey), iv),
                      blindedViewingKey, PrivKeys[w]))
    /\ UNCHANGED <<noteVars, libs, heap, wallets, ret, written, pth, dn>>

\* segment indexes around the hardened offset 2^31 and around 2^32, written
\* by their digits
ProbeIndexes ==
  {<<"0">>, <<"1">>,
   <<"2", "1", "4", "7", "4", "8", "3", "6", "4", "7">>,
   <<"2", "1", "4", "7", "4", "8", "3", "6", "4", "8">>,
   <<"4", "2", "9", "4", "9", "6", "7", "2", "9", "6">>,
   <<"4", "2", "9", "4", "9", "6", "7", "2", "9", "7">>}

\* node.derive("m/a'") and node.derive("m/b'") of one master node
ProbeDerive ==
  \E k \in 1..Len(Mnemonics), a \in ProbeIndexes, b \in ProbeIndexes :
    /\ pb = Idle
    /\ Const(fromMnemonic(Mnemonics[k]).v, LAMBDA node :
         pb' = Probed("derive", <<node, a, b>>,
                      <<derive(node, <<"m", "/">> \o a \o <<"'">>),
                        derive(node, <<"m", "/">> \o b \o <<"'">>)>>))
    /\ UNCHANGED <<noteVars, libs, heap, wallets, ret, written, pth, dn>>

NextProbe ==
  \/ ProbeScalar \/ ProbeSharedKey \/ ProbeUnblind
  \/ ProbeBlindingScalar \/ ProbeAdjust \/ ProbeXor
  \/ ProbeAssertValid \/ ProbeTokenHash \/ ProbeDecrypt
  \/ ProbeDerive

SpecProbe == InitProbe /\ [][NextProbe]_vars

\* the bytes read as a little-endian integer, modulo m
RECURSIVE LittleEndianMod(_, _)
LittleEndianMod(bytes, m) ==
  IF bytes = <<>> THEN 0
  ELSE (bytes[1] + 256 * LittleEndianMod(Tail(bytes), m)) % m

\* the first 32 bytes of SHA-512(privateKey), clamped as a little-endian
\* scalar (low three bits cleared, top bit cleared, next bit set), modulo L
ClampedHeadModL(privateKey) ==
  LET head == SubSeq(sha512(privateKey), 1, 32)
      clamped == [i \in 1..32 |->
                    IF i = 1 THEN head[1] - (head[1] % 8)
                    ELSE IF i = 32 THEN (head[32] % 64) + 64
                    ELSE head[i]]
  IN LittleEndianMod(clamped, CURVE_L)

\* the scalar that the claim names for a private key
ExpectedScalar(privateKey) ==
  IF ClampedHeadModL(privateKey) # 0 THEN ClampedHeadModL(privateKey) ELSE CURVE_L

\* C19: getSharedSymmetricKey and unblindNoteKey never throw: the shared key
\* is a hash, or undefined exactly when the private key is not of 32 bytes,
\* the point is malformed or the scalar is rejected; the unblinded key is a
\* point, or undefined exactly when the point is malformed or the blinding
\* scalar has no inverse.
C19_SoftFailing ==
  /\ (pb.st = "returned" /\ pb.op = "getSharedSymmetricKey") =>
       /\ "err" \notin DOMAIN pb.r
       /\ pb.r # None => DOMAIN pb.r = {"sha256"}
       /\ pb.r = None <=>
            \/ Len(pb.in[1]) # 32
            \/ ~PointFromHex(pb.in[2]).ok
            \/ ExpectedScalar(pb.in[1]) = CURVE_L
  /\ (pb.st = "returned" /\ pb.op = "unblindNoteKey") =>
       /\ "err" \notin DOMAIN pb.r
       /\ pb.r # None => pb.r.ok /\ PointFromHex(pb.r.v).ok
       /\ pb.r = None <=>
            \/ ~PointFromHex(pb.in[1]).ok
            \/ getBlindingScalar(pb.in[2], pb.in[3]) % CurveN = 0

\* the shared key of a private key of 31 bytes is undefined
C19_Witness ==
  /\ pb.st = "returned" /\ pb.op = "getSharedSymmetricKey"
  /\ Len(pb.in[1]) = 31 /\ pb.r = None

\* C20: for a private key of 32 bytes getPrivateScalarFromPrivateKey returns
\* 32 bytes, big-endian, of a scalar s with 0 < s <= L: the clamped head of
\* the hash modulo L, or L when that is zero; for a key of another length it
\* fails.
C20_ScalarNeverZero ==
  (pb.st = "returned" /\ pb.op = "getPrivateScalarFromPrivateKey") =>
    IF Len(pb.in[1]) = 32
    THEN /\ pb.r.ok /\ Len(pb.r.v) = 32
         /\ pb.r.v = bigintToUint8Array(ExpectedScalar(pb.in[1]), 32)
         /\ uint8ArrayToBigIntMod(pb.r.v, CURVE_L + 1) \in 1..CURVE_L
    ELSE ~pb.r.ok

\* a private key whose clamped head is zero modulo L gives L
C20_Witness ==
  /\ pb.st = "returned" /\ pb.op = "getPrivateScalarFromPrivateKey"
  /\ Len(pb.in[1]) = 32 /\ ClampedHeadModL(pb.in[1]) = 0
  /\ pb.r = Ok(CURVE_L_BYTES)

\* C21: getBlindingScalar returns an integer s with 0 < s <= n.
C21_BlindingScalarNonZero ==
  (pb.st = "returned" /\ pb.op = "getBlindingScalar") =>
    (pb.r.ok /\ 0 < pb.r.v /\ pb.r.v <= CurveN)

\* the blinding scalar is the hash of the byte-wise XOR of the two randoms,
\* reduced modulo n, so it lies in 0..n-1
C21_BlindingScalarBelowOrder ==
  (pb.st = "returned" /\ pb.op = "getBlindingScalar") =>
    /\ pb.r.ok /\ pb.r.v \in 0..(CurveN - 1)
    /\ Len(pb.in[1]) = Len(pb.in[2]) =>
         pb.r.v = uint8ArrayToBigIntMod(
                    sha512([i \in 1..Len(pb.in[1]) |-> BitXor(pb.in[1][i], pb.in[2][i])]),
                    CurveN)

\* bit k of byte b
Bit(b, k) == (b \div Pow(2, k)) % 2

\* byte out is byte in with its low three bits cleared
LowCleared(in, out) ==
  \A k \in 0..7 : Bit(out, k) = IF k < 3 THEN 0 ELSE Bit(in, k)

\* byte out is byte in with its top bit cleared and the next bit set
TopClamped(in, out) ==
  \A k \in 0..7 : Bit(out, k) = IF k = 7 THEN 0 ELSE IF k = 6 THEN 1 ELSE Bit(in, k)

C28_RejectsMismatched ==
  (pb.st = "returned" /\ pb.op = "xorBytesInPlace") =>
    /\ Len(pb.in[1]) # Len(pb.in[2]) => ~pb.r.ok
    /\ Len(pb.in[3]) < Len(pb.in[1]) => ~pb.r.ok

\* when a and b are of one length and the output buffer holds the result,
\* outputBuffer[i] = a[i] XOR b[i] from offset to a.length - 1 and every
\* other position is unchanged
C28_XorWhenWellFormed ==
  (/\ pb.st = "returned" /\ pb.op = "xorBytesInPlace"
   /\ Len(pb.in[1]) = Len(pb.in[2]) /\ Len(pb.in[3]) >= Len(pb.in[1])) =>
    /\ pb.r.ok /\ Len(pb.r.v) = Len(pb.in[3])
    /\ \A i \in 1..Len(pb.in[3]) :
         pb.r.v[i] = IF i > pb.in[4] /\ i <= Len(pb.in[1])
                     THEN BitXor(pb.in[1][i], pb.in[2][i])
                     ELSE pb.in[3][i]

\* the string is 0x and one or more hex digits, all of them zero
EncodesZero(v) ==
  /\ isString(v) /\ startsWith0x(v.str) /\ Len(v.str) > 2
  /\ \A i \in 3..Len(v.str) : v.str[i] = "0"

\* the string is 0x and hex digits, one of them not zero
EncodesNonZero(v) ==
  /\ isString(v) /\ startsWith0x(v.str) /\ Len(v.str) > 2
  /\ \E i \in 3..Len(v.str) : v.str[i] # "0"

\* C23: an ERC721 or ERC1155 token whose sub-ID encodes zero, in any width,
\* is rejected.
C23_ZeroSubIDRejected ==
  (/\ pb.st = "returned" /\ pb.op = "assertValidNoteToken"
   /\ pb.in[1].tokenType \in {Num(1), Num(2)}
   /\ EncodesZero(pb.in[1].tokenSubID)) => ~pb.r.ok

\* what assertValidNoteToken accepts has a type of the three, an address of
\* 20 bytes (or 32 for ERC20), for ERC20 a sub-ID that does not encode a
\* non-zero integer, for the others a sub-ID that is written, and for
\* ERC721 the value 1; and what has a shape of the claim with an address of
\* 20 bytes is accepted
C23_AcceptedShapes ==
  (pb.st = "returned" /\ pb.op = "assertValidNoteToken") =>
    /\ pb.r.ok =>
         /\ pb.in[1].tokenType \in {Num(0), Num(1), Num(2)}
         /\ Len(strip0x(pb.in[1].tokenAddress.str))
              \in (IF pb.in[1].tokenType = Num(0) THEN {40, 64} ELSE {40})
         /\ pb.in[1].tokenType = Num(0) => ~EncodesNonZero(pb.in[1].tokenSubID)
         /\ pb.in[1].tokenType # Num(0) => pb.in[1].tokenSubID \notin {None, Str(<<>>)}
         /\ pb.in[1].tokenType = Num(1) => pb.in[2] = BigIntOf(1)
    /\ (/\ Len(strip0x(pb.in[1].tokenAddress.str)) = 40
        /\ \/ pb.in[1].tokenType = Num(0) /\ EncodesZero(pb.in[1].tokenSubID)
           \/ /\ pb.in[1].tokenType = Num(1) /\ EncodesNonZero(pb.in[1].tokenSubID)
              /\ pb.in[2] = BigIntOf(1)
           \/ pb.in[1].tokenType = Num(2) /\ EncodesNonZero(pb.in[1].tokenSubID))
       => pb.r.ok

\* the bytes, left-padded with zero bytes to 32 bytes
LeftPad32(bytes) == Rep(0, 32 - Len(bytes)) \o bytes

\* the hash of the claim: keccak256 over the type, the address and the
\* sub-ID, each left-padded to 32 bytes, modulo SNARK_PRIME, as 32 bytes
PaddedNFTHash(tokenData) ==
  Str(uint8ArrayToHex(
        bigintToUint8Array(
          uint8ArrayToBigIntMod(
            keccak256(LeftPad32(<<tokenData.tokenType.num>>)
                      \o LeftPad32(hexToUint8Array(tokenData.tokenAddress.str).v)
                      \o LeftPad32(hexToUint8Array(tokenData.tokenSubID.str).v)),
            SNARK_PRIME), 32), TRUE))

\* the tokens of the claim: an address and a sub-ID of at most 32 bytes
NFTOfClaim(tokenData) ==
  /\ tokenData.tokenType \in {Num(1), Num(2)}
  /\ isString(tokenData.tokenSubID)
  /\ Len(strip0x(tokenData.tokenSubID.str)) % 2 = 0
  /\ Len(strip0x(tokenData.tokenSubID.str)) <= 64
  /\ Len(strip0x(tokenData.tokenAddress.str)) <= 64

\* C24: for an ERC721 or ERC1155 token computeTokenHash is keccak256 over
\* the type, the address and the sub-ID, each left-padded to 32 bytes,
\* modulo SNARK_PRIME.
C24_NFTHashLeftPadded ==
  (pb.st = "returned" /\ pb.op = "computeTokenHash" /\ NFTOfClaim(pb.in[1])) =>
    pb.r = Ok(PaddedNFTHash(pb.in[1]))

\* the same with the sub-ID written at the front of its 32 bytes, as the
\* code does; the hash is of 32 bytes and below SNARK_PRIME, and a type that
\* is none of the three fails
C24_NFTHashAsComputed ==
  (pb.st = "returned" /\ pb.op = "computeTokenHash") =>
    /\ NFTOfClaim(pb.in[1]) =>
         /\ pb.r.ok
         /\ LET bytes == hexToUint8Array(pb.r.v.str).v
                subID == hexToUint8Array(pb.in[1].tokenSubID.str).v
            IN /\ Len(bytes) = 32 /\ uint8ArrayToBigInt(bytes) < SNARK_PRIME
               /\ uint8ArrayToBigInt(bytes) =
                    uint8ArrayToBigIntMod(
                      keccak256(LeftPad32(<<pb.in[1].tokenType.num>>)
                                \o LeftPad32(hexToUint8Array(pb.in[1].tokenAddress.str).v)
                                \o subID \o Rep(0, 32 - Len(subID))),
                      SNARK_PRIME)
    /\ pb.in[1].tokenType \notin {Num(0), Num(1), Num(2)} =>
         pb.r = Throw("Unrecognized token type")

\* C25: for an ERC20 token computeTokenHash is a value of 32 bytes.
C25_ERC20HashIs32Bytes ==
  (pb.st = "returned" /\ pb.op = "computeTokenHash" /\ pb.in[1].tokenType = Num(0)) =>
    (pb.r.ok /\ Len(strip0x(pb.r.v.str)) = 64)

\* for an address of at most 32 bytes the ERC20 hash is the address
\* left-padded to 32 bytes, whatever the sub-ID and with or without the
\* prefix, and the hash of the hash is the hash
C25_ERC20HashPadsAddress ==
  (/\ pb.st = "returned" /\ pb.op = "computeTokenHash" /\ pb.in[1].tokenType = Num(0)
   /\ Len(strip0x(pb.in[1].tokenAddress.str)) <= 64) =>
    /\ pb.r.ok
    /\ hexToUint8Array(pb.r.v.str) =
         Ok(LeftPad32(hexToUint8Array(pb.in[1].tokenAddress.str).v))
    /\ computeTokenHash([pb.in[1] EXCEPT !.tokenAddress = pb.r.v]) = pb.r

\* C26: the token data of a non-null decryptCommitment result has a token
\* type of ERC20 (0), ERC721 (1) or ERC1155 (2).
C26_TokenTypeOfTheThree ==
  (pb.st = "returned" /\ pb.op = "decryptCommitment" /\ pb.r.ok /\ pb.r.v # Null) =>
    pb.r.v.tokenData.tokenType \in {0, 1, 2}

\* every note that a constructor, a factory or a deserializer returns has a
\* token type of the three
C26_NotesOfTheThree ==
  \A n \in ProducedNotes : n.tokenData.tokenType \in {Num(0), Num(1), Num(2)}

\* the first block of the plaintext of a decryptCommitment probe
FirstBlock == IF pb.in[1] = <<>> THEN <<>> ELSE pb.in[1][1]

\* C27 as it stands: a plaintext of the 101 bytes of the layout is accepted.
C27_Layout101Accepted ==
  (pb.st = "returned" /\ pb.op = "decryptCommitment" /\ Len(FirstBlock) = 101) =>
    (pb.r.ok /\ pb.r.v # Null)

\* C27: the layout of the first block is random (16 bytes), npk (32), value
\* (32, big-endian), tokenAddress (20), tokenType (1) and tokenSubID (32),
\* 133 bytes in all: a first block of 133 bytes or more is split at these
\* offsets, whatever follows the 133 bytes and the first block; a shorter
\* first block, or none, gives null.
C27_Layout133 ==
  (pb.st = "returned" /\ pb.op = "decryptCommitment") =>
    /\ pb.r.ok
    /\ Len(FirstBlock) < 133 => pb.r.v = Null
    /\ Len(FirstBlock) >= 133 =>
         pb.r.v = [random |-> uint8ArrayToHex(SubSeq(FirstBlock, 1, 16), TRUE),
                   npk |-> uint8ArrayToHex(SubSeq(FirstBlock, 17, 48), TRUE),
                   value |-> uint8ArrayToBigInt(SubSeq(FirstBlock, 49, 80)),
                   tokenData |->
                     [tokenType |-> FirstBlock[101],
                      tokenAddress |-> uint8ArrayToHex(SubSeq(FirstBlock, 81, 100), TRUE),
                      tokenSubID |-> uint8ArrayToHex(SubSeq(FirstBlock, 102, 133), TRUE)]]

\* a block with two bytes behind the layout is read as the block without them
C27_Witness ==
  /\ pb.st = "returned" /\ pb.op = "decryptCommitment"
  /\ Len(FirstBlock) = 135
  /\ pb.r.ok /\ pb.r.v # Null /\ pb.r.v.value = 1000 /\ pb.r.v.tokenData.tokenType = 2

\* C29 as it stands: the index of every segment that the path accepts is
\* written with its top bit set, and two different indexes of one parent
\* give different four bytes and different child nodes.
C29_IndexDoesNotWrap ==
  (pb.st = "returned" /\ pb.op = "derive") =>
    /\ pb.r[1].ok /\ pb.r[2].ok
    /\ setUint32(pb.in[2], HARDENED_OFFSET)[1] >= 128
    /\ pb.in[2] # pb.in[3] =>
         /\ setUint32(pb.in[2], HARDENED_OFFSET) # setUint32(pb.in[3], HARDENED_OFFSET)
         /\ pb.r[1].v # pb.r[2].v

\* what holds of the code: the four bytes are those of index + 2^31 modulo
\* 2^32, so two indexes give the same child node of a parent exactly when
\* they are equal modulo 2^32, and the top bit is the complement of bit 31
\* of the index.
C29_IndexModulo32 ==
  (pb.st = "returned" /\ pb.op = "derive") =>
    /\ pb.r[1].ok /\ pb.r[2].ok
    /\ (pb.r[1].v = pb.r[2].v) <=> (ToUint32(pb.in[2]) = ToUint32(pb.in[3]))
    /\ (setUint32(pb.in[2], HARDENED_OFFSET)[1] >= 128)
          <=> (ToUint32(pb.in[2])[1] < 128)

\* C30 as it stands: decryptRandom of a wallet with a keystore waits for the
\* shared key of its viewing public key and the shield key; when the
\* derivation yields no key it throws 'No shared key.', and otherwise the
\* outcome is that of AES.decryptGCM with the SHA-256 digest that is the
\* key; the keystore and the arrays of the wallet are as they were at the
\* call.
C30_WaitsForSharedKey ==
  (ret.st = "returned" /\ ret.op = "decryptRandom" /\ ret.w \in WithKeystore) =>
    Const(getSharedSymmetricKey(
            heap[getViewingPublicKey(wallets[ret.w].this).v].u8, ret.shieldKey),
          LAMBDA sharedKey :
      /\ sharedKey = None => ret.r = Throw("No shared key.")
      /\ sharedKey # None =>
           /\ DOMAIN sharedKey = {"sha256"}
           /\ ret.r = Const(decryptGCM([iv |-> Rep(1, 16), tag |-> Rep(1, 16),
                                        data |-> <<Rep(2, 16)>>], sharedKey),
                            LAMBDA decrypted :
                        IF decrypted.ok THEN Ok(decrypted.v[1]) ELSE decrypted))

====
